---- MODULE Spec2Model ----
(***************************************************************************)
(* MeteorSim: the impact calculator (calculateImpact and its helpers) and  *)
(* the mitigation calculator (calculateMitigation and its four strategy    *)
(* functions) of src/src/services/nasaService.ts.                          *)
(*                                                                         *)
(* Numbers.  The calculators work on IEEE doubles and are almost entirely  *)
(* multiplicative (products, quotients, powers with fractional exponents,  *)
(* min, max).  A double is modelled as a sign and a fixed-point base-10    *)
(* logarithm of its magnitude (a logarithmic number system):               *)
(*     [sgn |-> 1, lg |-> l]    the number  10^(l / Decade)                *)
(*     [sgn |-> -1, lg |-> l]   the number -10^(l / Decade)                *)
(*     [sgn |-> 0, lg |-> 0]    zero                                       *)
(*     [sgn |-> 2, lg |-> 0]    NaN                                        *)
(* so that x*y adds logarithms, Math.pow(x, p/q) scales one and rounds it  *)
(* to the grid (as a double operation rounds to the nearest double), and   *)
(* the order of two numbers is the order of their logarithms.  The grid    *)
(* has Decade = 100000 steps per factor of ten (a relative step of 2.3e-5).*)
(* Integers of the source (degrees, years, metres) enter through the       *)
(* logarithm table Log10Table.  Latitudes and longitudes are only ever     *)
(* compared; they are integers in tenths of a degree.                      *)
(***************************************************************************)
EXTENDS Integers, Sequences, FiniteSets, TLC

\* Grid steps per decade of the logarithmic representation.
Decade == 100 * 1000

\* round(Decade * log10(n)) for the integer literals and inputs used below.
Log10Table ==
    (1 :> 0) @@ (2 :> 30103) @@ (3 :> 47712) @@ (4 :> 60206) @@ (5 :> 69897)
 @@ (6 :> 77815) @@ (7 :> 84510) @@ (8 :> 90309) @@ (9 :> 95424)
 @@ (10 :> 100000) @@ (11 :> 104139) @@ (12 :> 107918) @@ (15 :> 117609)
 @@ (16 :> 120412) @@ (18 :> 125527) @@ (20 :> 130103) @@ (24 :> 138021)
 @@ (25 :> 139794) @@ (30 :> 147712) @@ (32 :> 150515) @@ (36 :> 155630)
 @@ (50 :> 169897) @@ (72 :> 185733) @@ (80 :> 190309) @@ (85 :> 192942)
 @@ (90 :> 195424) @@ (95 :> 197772) @@ (100 :> 200000) @@ (499 :> 269810)
 @@ (500 :> 269897) @@ (938 :> 297220) @@ (1000 :> 300000)
 @@ (1963 :> 329292) @@ (3000 :> 347712) @@ (3600 :> 355630)
 @@ (4184 :> 362159) @@ (6674 :> 382439) @@ (9999 :> 399996)
 @@ (10000 :> 400000) @@ (36525 :> 456259)
 @@ (23 :> 136173) @@ (45 :> 165321) @@ (73 :> 186332) @@ (150 :> 217609) @@ (2000 :> 330103)
 @@ (4000 :> 360206) @@ (250 :> 239794)

Zero == [sgn |-> 0, lg |-> 0]
NaN == [sgn |-> 2, lg |-> 0]
Pos(l) == [sgn |-> 1, lg |-> l]
Neg(l) == [sgn |-> -1, lg |-> l]

\* The double of an integer n of the source.
FromInt(n) ==
    IF n = 0 THEN Zero
    ELSE IF n > 0 THEN Pos(Log10Table[n]) ELSE Neg(Log10Table[-n])

\* The decimal literal m * 10^e, m a positive integer (4.184e9 is Lit(4184, 6)).
Lit(m, e) == Pos(Log10Table[m] + e * Decade)

\* Infinity and -Infinity: a logarithm above that of every finite double.
\* The zero of the model is +0: every zero of the inputs is, and so is the
\* zero of 0 / 2, of Math.pow(0, 3) and of 0 * 1000.
InfLg == 1000 * Decade
Infinity == Pos(InfLg)
IsInf(x) == (x.sgn = 1 \/ x.sgn = -1) /\ x.lg = InfLg

\* x * y
Mul(x, y) ==
    IF x.sgn = 2 \/ y.sgn = 2 THEN NaN
    ELSE IF x.sgn = 0 \/ y.sgn = 0
         THEN (IF IsInf(x) \/ IsInf(y) THEN NaN ELSE Zero)
    ELSE IF IsInf(x) \/ IsInf(y) THEN [sgn |-> x.sgn * y.sgn, lg |-> InfLg]
    ELSE [sgn |-> x.sgn * y.sgn, lg |-> x.lg + y.lg]

\* x / y: 0 / 0 and Infinity / Infinity are NaN, x / 0 is Infinity with the
\* sign of x, x / Infinity is 0
Div(x, y) ==
    IF x.sgn = 2 \/ y.sgn = 2 THEN NaN
    ELSE IF y.sgn = 0
         THEN (IF x.sgn = 0 THEN NaN ELSE [sgn |-> x.sgn, lg |-> InfLg])
    ELSE IF IsInf(y) THEN (IF IsInf(x) THEN NaN ELSE Zero)
    ELSE IF x.sgn = 0 THEN Zero
    ELSE IF IsInf(x) THEN [sgn |-> x.sgn * y.sgn, lg |-> InfLg]
    ELSE [sgn |-> x.sgn * y.sgn, lg |-> x.lg - y.lg]

\* Math.pow(x, n) for an integer n >= 1
PowInt(x, n) ==
    IF x.sgn = 2 THEN NaN
    ELSE IF x.sgn = 0 THEN Zero
    ELSE [sgn |-> IF x.sgn = -1 /\ n % 2 = 1 THEN -1 ELSE 1,
          lg |-> IF IsInf(x) THEN InfLg ELSE n * x.lg]

\* Math.pow(x, p/q) for a fractional exponent 0 < p/q < 1: NaN for a finite
\* negative base, 0 for 0, Infinity for Infinity and -Infinity, and the
\* logarithm scaled and rounded to the nearest grid point otherwise.
Pow(x, p, q) ==
    IF x.sgn = 2 THEN NaN
    ELSE IF IsInf(x) THEN Infinity
    ELSE IF x.sgn = -1 THEN NaN
    ELSE IF x.sgn = 0 THEN Zero
    ELSE Pos((2 * p * x.lg + q) \div (2 * q))

\* x < y, x <= y (false when either is NaN)
Less(x, y) ==
    /\ x.sgn # 2 /\ y.sgn # 2
    /\ \/ x.sgn < y.sgn
       \/ x.sgn = 1 /\ y.sgn = 1 /\ x.lg < y.lg
       \/ x.sgn = -1 /\ y.sgn = -1 /\ x.lg > y.lg

Leq(x, y) == x.sgn # 2 /\ y.sgn # 2 /\ ~Less(y, x)

\* Math.min(x, y), Math.max(x, y): NaN when either is NaN
Min(x, y) == IF x.sgn = 2 \/ y.sgn = 2 THEN NaN ELSE IF Less(y, x) THEN y ELSE x
Max(x, y) == IF x.sgn = 2 \/ y.sgn = 2 THEN NaN ELSE IF Less(x, y) THEN y ELSE x

PI == Pos(49715)

\* Math.abs on an integer coordinate
Abs(n) == IF n < 0 THEN -n ELSE n

\* Math.sin(angle * Math.PI / 180) for the entry angles (degrees) the inputs
\* use: sin 0 = 0, sin 15 = 0.258819, sin 45 = 0.707107, sin 90 = 1, and
\* sin(-30) = -0.5, sin 120 = 0.866025 for angles outside the valid range.
SinDegrees(angle) ==
    CASE angle = 0 -> Zero
      [] angle = 15 -> Pos(-58700)
      [] angle = 45 -> Pos(-15051)
      [] angle = 90 -> Pos(0)
      [] angle = -30 -> Neg(-30103)
      [] angle = 120 -> Pos(-6247)

(***************************************************************************)
(* Impact calculator                                                       *)
(***************************************************************************)
ASTEROID_DENSITY == 3000
TNT_ENERGY == Lit(4184, 6)
\* 0.71, in hundredths: the unit of a draw of Math.random() below
EARTH_OCEAN_COVERAGE == 71

calculateMass(diameter) ==
    LET radius == Div(diameter, FromInt(2))
        volume == Mul(Mul(Div(FromInt(4), FromInt(3)), PI), PowInt(radius, 3))
    IN  Mul(volume, FromInt(ASTEROID_DENSITY))

\* Mutant of calculateEnergy: the kinetic energy divides by the mass.
calculateEnergy_DividesByMass(mass, velocity) ==
    LET velocityMs == Mul(velocity, FromInt(1000))
        energyJoules == Mul(Div(Lit(5, -1), mass), PowInt(velocityMs, 2))
        energyKilotons == Div(energyJoules, TNT_ENERGY)
        energyMegatons == Div(energyKilotons, FromInt(1000))
    IN  energyMegatons

calculateEnergy(mass, velocity) ==
    LET velocityMs == Mul(velocity, FromInt(1000))
        energyJoules == Mul(Mul(Lit(5, -1), mass), PowInt(velocityMs, 2))
        energyKilotons == Div(energyJoules, TNT_ENERGY)
        energyMegatons == Div(energyKilotons, FromInt(1000))
    IN  energyMegatons

\* angle is in whole degrees; velocity is a parameter the body never reads
calculateCraterDiameter(energy, velocity, angle, isOcean) ==
    LET energyJoules == Mul(Mul(energy, Lit(1, 6)), TNT_ENERGY)
        angleEfficiency == Pow(SinDegrees(angle), 1, 3)
        terrainFactor == IF isOcean THEN Lit(8, -1) ELSE Lit(1, 0)
        scalingConstant == Lit(18, -4)
        diameter == Mul(Mul(Mul(scalingConstant, Pow(energyJoules, 22, 100)),
                            angleEfficiency), terrainFactor)
    IN  Div(diameter, FromInt(1000))

\* Mutant of calculateCraterDepth: a fifth of the diameter.
calculateCraterDepth_Fifth(diameter) == Div(diameter, FromInt(5))

calculateCraterDepth(diameter) == Div(diameter, FromInt(4))

calculateShockwaveRadius(energy) == Mul(Pow(energy, 33, 100), Lit(25, -1))

calculateThermalRadius(energy) == Mul(Pow(energy, 41, 100), Lit(32, -1))

\* (2/3) * log10(energyJoules) - 2.9, a plain fixed-point number in steps of
\* 1/Decade: log10 of the joule figure is its logarithm field.  kind is
\* "-inf" for log10(0), "inf" for log10(Infinity) and "nan" for log10 of a
\* negative number or NaN.
calculateSeismicMagnitude(energy) ==
    LET energyJoules == Mul(Mul(energy, Lit(1, 6)), TNT_ENERGY)
    IN  CASE IsInf(energyJoules) /\ energyJoules.sgn = 1 -> [kind |-> "inf", v |-> 0]
          [] energyJoules.sgn = 1 ->
               [kind |-> "fin",
                v |-> (4 * energyJoules.lg + 3) \div 6 - 29 * (Decade \div 10)]
          [] energyJoules.sgn = 0 -> [kind |-> "-inf", v |-> 0]
          [] OTHER -> [kind |-> "nan", v |-> 0]

\* Mutant of isOceanImpact: the Indian Ocean box is missing.
isOceanImpact_NoIndianBox(lat, lon, random) ==
    IF (lon > 1200 \/ lon < -700) /\ Abs(lat) < 600
        THEN [ocean |-> TRUE, drawn |-> FALSE]
    ELSE IF (lon > -700 /\ lon < -100) /\ Abs(lat) < 600
        THEN [ocean |-> TRUE, drawn |-> FALSE]
    ELSE [ocean |-> random < EARTH_OCEAN_COVERAGE, drawn |-> TRUE]

\* Mutant of isOceanImpact: the western Pacific box begins at 80 degrees
\* west.
isOceanImpact_PacificFrom80West(lat, lon, random) ==
    IF (lon > 1200 \/ lon < -800) /\ Abs(lat) < 600
        THEN [ocean |-> TRUE, drawn |-> FALSE]
    ELSE IF (lon > -700 /\ lon < -100) /\ Abs(lat) < 600
        THEN [ocean |-> TRUE, drawn |-> FALSE]
    ELSE IF lon > 400 /\ lon < 1200 /\ lat < 200 /\ lat > -500
        THEN [ocean |-> TRUE, drawn |-> FALSE]
    ELSE [ocean |-> random < EARTH_OCEAN_COVERAGE, drawn |-> TRUE]

\* Mutant of isOceanImpact: the Pacific box has its eastern half only.
isOceanImpact_PacificEastOnly(lat, lon, random) ==
    IF lon > 1200 /\ Abs(lat) < 600
        THEN [ocean |-> TRUE, drawn |-> FALSE]
    ELSE IF (lon > -700 /\ lon < -100) /\ Abs(lat) < 600
        THEN [ocean |-> TRUE, drawn |-> FALSE]
    ELSE IF lon > 400 /\ lon < 1200 /\ lat < 200 /\ lat > -500
        THEN [ocean |-> TRUE, drawn |-> FALSE]
    ELSE [ocean |-> random < EARTH_OCEAN_COVERAGE, drawn |-> TRUE]

\* Mutant of isOceanImpact: the draw is compared with <=.
isOceanImpact_DrawInclusive(lat, lon, random) ==
    IF (lon > 1200 \/ lon < -700) /\ Abs(lat) < 600
        THEN [ocean |-> TRUE, drawn |-> FALSE]
    ELSE IF (lon > -700 /\ lon < -100) /\ Abs(lat) < 600
        THEN [ocean |-> TRUE, drawn |-> FALSE]
    ELSE IF lon > 400 /\ lon < 1200 /\ lat < 200 /\ lat > -500
        THEN [ocean |-> TRUE, drawn |-> FALSE]
    ELSE [ocean |-> random <= EARTH_OCEAN_COVERAGE, drawn |-> TRUE]

\* lat, lon in tenths of a degree.  random is the value the next call of
\* Math.random() returns, in hundredths (0..99); drawn tells whether the
\* call was made.
isOceanImpact(lat, lon, random) ==
    IF (lon > 1200 \/ lon < -700) /\ Abs(lat) < 600
        THEN [ocean |-> TRUE, drawn |-> FALSE]
    ELSE IF (lon > -700 /\ lon < -100) /\ Abs(lat) < 600
        THEN [ocean |-> TRUE, drawn |-> FALSE]
    ELSE IF lon > 400 /\ lon < 1200 /\ lat < 200 /\ lat > -500
        THEN [ocean |-> TRUE, drawn |-> FALSE]
    ELSE [ocean |-> random < EARTH_OCEAN_COVERAGE, drawn |-> TRUE]

\* average ocean depth in meters, the default of the waterDepth parameter
DefaultWaterDepth == 4000

\* Mutant of calculateTsunamiHeight: the initial height is not capped.
calculateTsunamiHeight_Uncapped(energy, craterDiameter, waterDepth) ==
    LET energyFactor == Pow(energy, 25, 100)
        craterFactor == Mul(craterDiameter, FromInt(1000))
        initialHeight == Div(craterFactor, FromInt(10))
    IN  Mul(Mul(initialHeight, energyFactor), Lit(1, -1))

calculateTsunamiHeight(energy, craterDiameter, waterDepth) ==
    LET energyFactor == Pow(energy, 25, 100)
        craterFactor == Mul(craterDiameter, FromInt(1000))
        initialHeight == Min(Div(craterFactor, FromInt(10)),
                             Mul(waterDepth, Lit(5, -1)))
    IN  Mul(Mul(initialHeight, energyFactor), Lit(1, -1))

\* Math.round(x).  Below 0.5 the result is 0; from 10^5 on, the nearest
\* integer is closer to x than the grid resolves, so the result is x.  In
\* between the grid cannot name the nearest integer: the result is
\* OffGrid, and RoundOnGrid below states that no input of the model gets
\* there (the asteroids drawn are 50 m and larger).
OffGrid == [sgn |-> 3, lg |-> 0]

\* What Math.round returns is a whole number: the record carries the field
\* whole, which no other operation of the model sets.
Whole(x) == [sgn |-> x.sgn, lg |-> x.lg, whole |-> TRUE]

Round(x) ==
    IF x.sgn = 2 THEN NaN
    ELSE IF x.sgn = 0 THEN Whole(Zero)
    ELSE IF x.sgn = 1 /\ Less(x, Lit(5, -1)) THEN Whole(Zero)
    ELSE IF IsInf(x) THEN x
    ELSE IF x.lg >= 5 * Decade THEN Whole(x)
    ELSE OffGrid

\* Number.isInteger(x): zero, or a finite value that Math.round produced
IsInteger(x) == x.sgn = 0 \/ (x.sgn \in {1, -1} /\ ~IsInf(x) /\ "whole" \in DOMAIN x)

\* populationDensities[region]
populationDensities(region) ==
    CASE region = "north_america" -> 25
      [] region = "south_america" -> 23
      [] region = "europe" -> 73
      [] region = "africa" -> 45
      [] region = "asia" -> 150
      [] region = "oceania" -> 5
      [] region = "ocean" -> 0

\* Mutant of populationRegion: oceania is tested before asia.
populationRegion_OceaniaFirst(lat, lon) ==
    IF Abs(lat) < 600
    THEN IF lon > -1300 /\ lon < -600 /\ lat > 150 THEN "north_america"
         ELSE IF lon > -800 /\ lon < -350 /\ lat < 150 THEN "south_america"
         ELSE IF lon > -100 /\ lon < 400 /\ lat > 350 THEN "europe"
         ELSE IF lon > -200 /\ lon < 500 /\ lat < 350 /\ lat > -350 THEN "africa"
         ELSE IF lon > 1100 /\ lon < 1800 /\ lat < -100 THEN "oceania"
         ELSE IF lon > 400 /\ lon < 1500 THEN "asia"
         ELSE "ocean"
    ELSE "ocean"

\* the region bucket of estimateAffectedPopulation (lat, lon in tenths)
populationRegion(lat, lon) ==
    IF Abs(lat) < 600
    THEN IF lon > -1300 /\ lon < -600 /\ lat > 150 THEN "north_america"
         ELSE IF lon > -800 /\ lon < -350 /\ lat < 150 THEN "south_america"
         ELSE IF lon > -100 /\ lon < 400 /\ lat > 350 THEN "europe"
         ELSE IF lon > -200 /\ lon < 500 /\ lat < 350 /\ lat > -350 THEN "africa"
         ELSE IF lon > 400 /\ lon < 1500 THEN "asia"
         ELSE IF lon > 1100 /\ lon < 1800 /\ lat < -100 THEN "oceania"
         ELSE "ocean"
    ELSE "ocean"

\* Mutant of estimateAffectedPopulation: the product is returned unrounded.
estimateAffectedPopulation_NoRound(lat, lon, shockwaveRadius, thermalRadius) ==
    LET region == populationRegion(lat, lon)
        density == FromInt(populationDensities(region))
        affectedArea == Mul(PI, PowInt(Max(shockwaveRadius, thermalRadius), 2))
    IN  Mul(density, affectedArea)

estimateAffectedPopulation(lat, lon, shockwaveRadius, thermalRadius) ==
    LET region == populationRegion(lat, lon)
        density == FromInt(populationDensities(region))
        affectedArea == Mul(PI, PowInt(Max(shockwaveRadius, thermalRadius), 2))
    IN  Round(Mul(density, affectedArea))

\* Mutant of calculateImpact: tsunamiHeight is set on land too.
calculateImpact_AlwaysTsunami(data, random) ==
    LET mass == calculateMass(data.diameter)
        energy == calculateEnergy(mass, data.velocity)
        oc == isOceanImpact(data.impactLat, data.impactLon, random)
        isOcean == oc.ocean
        craterDiameter ==
            calculateCraterDiameter(energy, data.velocity, data.angle, isOcean)
        craterDepth == calculateCraterDepth(craterDiameter)
        shockwaveRadius == calculateShockwaveRadius(energy)
        thermalRadius == calculateThermalRadius(energy)
        seismicMagnitude == calculateSeismicMagnitude(energy)
    IN  [results |->
            [mass |-> mass,
             energy |-> energy,
             craterDiameter |-> craterDiameter,
             craterDepth |-> craterDepth,
             shockwaveRadius |-> shockwaveRadius,
             thermalRadius |-> thermalRadius,
             seismicMagnitude |-> seismicMagnitude,
             isOceanImpact |-> isOcean,
             affectedPopulation |->
                 estimateAffectedPopulation(data.impactLat, data.impactLon,
                                            shockwaveRadius, thermalRadius),
             tsunamiHeight |->
                 <<calculateTsunamiHeight(energy, craterDiameter,
                                          FromInt(DefaultWaterDepth))>>],
         drawn |-> oc.drawn]

\* Mutant of calculateImpact: out-of-range parameters are rejected with an
\* InvalidParameter error in place of a result.
calculateImpact_Validating(data, random) ==
    LET mass == calculateMass(data.diameter)
        energy == calculateEnergy(mass, data.velocity)
        oc == isOceanImpact(data.impactLat, data.impactLon, random)
        isOcean == oc.ocean
        craterDiameter ==
            calculateCraterDiameter(energy, data.velocity, data.angle, isOcean)
        craterDepth == calculateCraterDepth(craterDiameter)
        shockwaveRadius == calculateShockwaveRadius(energy)
        thermalRadius == calculateThermalRadius(energy)
        seismicMagnitude == calculateSeismicMagnitude(energy)
    IN  IF \/ data.diameter.sgn # 1 \/ data.velocity.sgn # 1
           \/ data.angle < 0 \/ data.angle > 90
           \/ Abs(data.impactLat) > 900 \/ Abs(data.impactLon) > 1800
        THEN [results |-> [error |-> "InvalidParameter"], drawn |-> FALSE]
        ELSE
        [results |->
            [mass |-> mass,
             energy |-> energy,
             craterDiameter |-> craterDiameter,
             craterDepth |-> craterDepth,
             shockwaveRadius |-> shockwaveRadius,
             thermalRadius |-> thermalRadius,
             seismicMagnitude |-> seismicMagnitude,
             isOceanImpact |-> isOcean,
             affectedPopulation |->
                 estimateAffectedPopulation(data.impactLat, data.impactLon,
                                            shockwaveRadius, thermalRadius),
             tsunamiHeight |->
                 IF isOcean
                 THEN <<calculateTsunamiHeight(energy, craterDiameter,
                                               FromInt(DefaultWaterDepth))>>
                 ELSE << >>],
         drawn |-> oc.drawn]

\* data: [diameter, velocity: doubles, angle: degrees, impactLat, impactLon:
\* tenths of a degree].  The optional tsunamiHeight is a sequence: << >> when
\* the field is absent, <<h>> when it is set.  drawn: whether Math.random()
\* was called.
calculateImpact(data, random) ==
    LET mass == calculateMass(data.diameter)
        energy == calculateEnergy(mass, data.velocity)
        oc == isOceanImpact(data.impactLat, data.impactLon, random)
        isOcean == oc.ocean
        craterDiameter ==
            calculateCraterDiameter(energy, data.velocity, data.angle, isOcean)
        craterDepth == calculateCraterDepth(craterDiameter)
        shockwaveRadius == calculateShockwaveRadius(energy)
        thermalRadius == calculateThermalRadius(energy)
        seismicMagnitude == calculateSeismicMagnitude(energy)
    IN  [results |->
            [mass |-> mass,
             energy |-> energy,
             craterDiameter |-> craterDiameter,
             craterDepth |-> craterDepth,
             shockwaveRadius |-> shockwaveRadius,
             thermalRadius |-> thermalRadius,
             seismicMagnitude |-> seismicMagnitude,
             isOceanImpact |-> isOcean,
             affectedPopulation |->
                 estimateAffectedPopulation(data.impactLat, data.impactLon,
                                            shockwaveRadius, thermalRadius),
             tsunamiHeight |->
                 IF isOcean
                 THEN <<calculateTsunamiHeight(energy, craterDiameter,
                                               FromInt(DefaultWaterDepth))>>
                 ELSE << >>],
         drawn |-> oc.drawn]

(***************************************************************************)
(* Sums and differences.  With d the distance of the two logarithms, the   *)
(* sum of two magnitudes is the larger one times 1 + 10^(-d) and their     *)
(* difference the larger one times 1 - 10^(-d).  Beyond five decades the   *)
(* factor is below the grid (the smaller number is absorbed, as a double   *)
(* absorbs an addend below its last bit).  DiffLog tabulates               *)
(* round(Decade * log10(1 - 10^(-d/Decade))) for the distances the         *)
(* model's inputs produce, SumLog round(Decade * log10(1 + 10^(-d/Decade))).*)
(***************************************************************************)
SumLog(d) ==
    CASE d >= 5 * Decade -> 0
      [] d = 0 -> 30103
      [] d = 9691 -> 25527
      [] d = 30103 -> 17609
      [] d = 39794 -> 14613
      [] d = 60206 -> 9691
      [] d = 90309 -> 5115

DiffLog(d) ==
    CASE d >= 5 * Decade -> 0
      [] d = 9691 -> -69897
      [] d = 30103 -> -30103
      [] d = 39794 -> -22185
      [] d = 60206 -> -12494
      [] d = 90309 -> -5799

Negate(x) == IF x.sgn = 1 \/ x.sgn = -1 THEN [x EXCEPT !.sgn = -x.sgn] ELSE x

\* x - y; Infinity - Infinity is NaN
Sub(x, y) ==
    IF x.sgn = 2 \/ y.sgn = 2 THEN NaN
    ELSE IF y.sgn = 0 THEN x
    ELSE IF x.sgn = 0 THEN Negate(y)
    ELSE IF IsInf(x) THEN (IF IsInf(y) /\ x.sgn = y.sgn THEN NaN ELSE x)
    ELSE IF IsInf(y) THEN Negate(y)
    ELSE IF x.sgn # y.sgn
         THEN (IF x.lg >= y.lg
               THEN [sgn |-> x.sgn, lg |-> x.lg + SumLog(x.lg - y.lg)]
               ELSE [sgn |-> x.sgn, lg |-> y.lg + SumLog(y.lg - x.lg)])
    ELSE IF x.lg = y.lg THEN Zero
    ELSE IF x.lg > y.lg THEN [sgn |-> x.sgn, lg |-> x.lg + DiffLog(x.lg - y.lg)]
    ELSE [sgn |-> -y.sgn, lg |-> y.lg + DiffLog(y.lg - x.lg)]

(***************************************************************************)
(* Mitigation calculator                                                   *)
(***************************************************************************)
\* warningTime * 365.25 * 24 * 3600
YearsToSeconds(warningTime) ==
    Mul(Mul(Mul(warningTime, Lit(36525, -2)), FromInt(24)), FromInt(3600))

\* Mutant of calculateKineticImpactor: the success probability has no cap.
calculateKineticImpactor_Uncapped(asteroidMass, asteroidVelocity, warningTime) ==
    LET spacecraftMass == FromInt(500)
        spacecraftVelocity == FromInt(10000)
        beta == Lit(15, -1)
        velocityChange ==
            Div(Mul(beta, Mul(spacecraftMass, spacecraftVelocity)), asteroidMass)
        timeSeconds == YearsToSeconds(warningTime)
        trajectoryDeflection == Div(Mul(velocityChange, timeSeconds), FromInt(1000))
        successProbability == Div(warningTime, FromInt(5))
        velocityRatio == Div(velocityChange, Mul(asteroidVelocity, FromInt(1000)))
        energyReduction ==
            Mul(Sub(Mul(FromInt(2), velocityRatio),
                    Mul(velocityRatio, velocityRatio)), FromInt(100))
    IN  [strategy |-> "kinetic_impactor",
         successProbability |-> successProbability,
         velocityChange |-> velocityChange,
         trajectoryDeflection |-> trajectoryDeflection,
         warningTimeNeeded |-> 5,
         energyReduction |-> energyReduction]

\* Mutant of calculateKineticImpactor: the deflection stays in metres.
calculateKineticImpactor_DeflectionInMetres(asteroidMass, asteroidVelocity, warningTime) ==
    LET spacecraftMass == FromInt(500)
        spacecraftVelocity == FromInt(10000)
        beta == Lit(15, -1)
        velocityChange ==
            Div(Mul(beta, Mul(spacecraftMass, spacecraftVelocity)), asteroidMass)
        timeSeconds == YearsToSeconds(warningTime)
        trajectoryDeflection == Mul(velocityChange, timeSeconds)
        successProbability == Min(Div(warningTime, FromInt(5)), Lit(95, -2))
        velocityRatio == Div(velocityChange, Mul(asteroidVelocity, FromInt(1000)))
        energyReduction ==
            Mul(Sub(Mul(FromInt(2), velocityRatio),
                    Mul(velocityRatio, velocityRatio)), FromInt(100))
    IN  [strategy |-> "kinetic_impactor",
         successProbability |-> successProbability,
         velocityChange |-> velocityChange,
         trajectoryDeflection |-> trajectoryDeflection,
         warningTimeNeeded |-> 5,
         energyReduction |-> energyReduction]

calculateKineticImpactor(asteroidMass, asteroidVelocity, warningTime) ==
    LET spacecraftMass == FromInt(500)
        spacecraftVelocity == FromInt(10000)
        beta == Lit(15, -1)
        velocityChange ==
            Div(Mul(beta, Mul(spacecraftMass, spacecraftVelocity)), asteroidMass)
        timeSeconds == YearsToSeconds(warningTime)
        trajectoryDeflection == Div(Mul(velocityChange, timeSeconds), FromInt(1000))
        successProbability == Min(Div(warningTime, FromInt(5)), Lit(95, -2))
        velocityRatio == Div(velocityChange, Mul(asteroidVelocity, FromInt(1000)))
        energyReduction ==
            Mul(Sub(Mul(FromInt(2), velocityRatio),
                    Mul(velocityRatio, velocityRatio)), FromInt(100))
    IN  [strategy |-> "kinetic_impactor",
         successProbability |-> successProbability,
         velocityChange |-> velocityChange,
         trajectoryDeflection |-> trajectoryDeflection,
         warningTimeNeeded |-> 5,
         energyReduction |-> energyReduction]

\* Mutant of calculateNuclearDevice: the energy reduction has no cap.
calculateNuclearDevice_Uncapped(asteroidMass, asteroidDiameter, warningTime) ==
    LET yieldJoules == Lit(4184, 12)
        efficiency == Lit(1, -1)
        impulse == Div(Mul(efficiency, yieldJoules), FromInt(1000))
        velocityChange == Div(impulse, asteroidMass)
        timeSeconds == YearsToSeconds(warningTime)
        trajectoryDeflection == Div(Mul(velocityChange, timeSeconds), FromInt(1000))
        successProbability == Min(Div(warningTime, FromInt(3)), Lit(90, -2))
        energyReduction == Mul(Div(velocityChange, FromInt(1000)), FromInt(50))
    IN  [strategy |-> "nuclear_device",
         successProbability |-> successProbability,
         velocityChange |-> velocityChange,
         trajectoryDeflection |-> trajectoryDeflection,
         warningTimeNeeded |-> 3,
         energyReduction |-> energyReduction]

calculateNuclearDevice(asteroidMass, asteroidDiameter, warningTime) ==
    LET yieldJoules == Lit(4184, 12)
        efficiency == Lit(1, -1)
        impulse == Div(Mul(efficiency, yieldJoules), FromInt(1000))
        velocityChange == Div(impulse, asteroidMass)
        timeSeconds == YearsToSeconds(warningTime)
        trajectoryDeflection == Div(Mul(velocityChange, timeSeconds), FromInt(1000))
        successProbability == Min(Div(warningTime, FromInt(3)), Lit(90, -2))
        energyReduction ==
            Min(Mul(Div(velocityChange, FromInt(1000)), FromInt(50)), FromInt(15))
    IN  [strategy |-> "nuclear_device",
         successProbability |-> successProbability,
         velocityChange |-> velocityChange,
         trajectoryDeflection |-> trajectoryDeflection,
         warningTimeNeeded |-> 3,
         energyReduction |-> energyReduction]

calculateGravityTractor(asteroidMass, warningTime) ==
    LET spacecraftMass == FromInt(1000)
        G == Lit(6674, -14)
        distance == FromInt(100)
        force == Div(Mul(Mul(G, spacecraftMass), asteroidMass), PowInt(distance, 2))
        acceleration == Div(force, asteroidMass)
        operatingTime == YearsToSeconds(warningTime)
        velocityChange == Mul(acceleration, operatingTime)
        trajectoryDeflection == Div(Mul(velocityChange, operatingTime), FromInt(2000))
        successProbability == Min(Div(warningTime, FromInt(10)), Lit(85, -2))
        energyReduction ==
            Min(Mul(Div(velocityChange, FromInt(100)), FromInt(5)), FromInt(8))
    IN  [strategy |-> "gravity_tractor",
         successProbability |-> successProbability,
         velocityChange |-> velocityChange,
         trajectoryDeflection |-> trajectoryDeflection,
         warningTimeNeeded |-> 10,
         energyReduction |-> energyReduction]

calculateIonBeam(asteroidMass, asteroidDiameter, warningTime) ==
    LET thrust == Lit(5, -1)
        efficiency == Lit(7, -1)
        effectiveThrust == Mul(thrust, efficiency)
        acceleration == Div(effectiveThrust, asteroidMass)
        operatingTime == YearsToSeconds(warningTime)
        velocityChange == Mul(acceleration, operatingTime)
        trajectoryDeflection == Div(Mul(velocityChange, operatingTime), FromInt(2000))
        successProbability == Min(Div(warningTime, FromInt(8)), Lit(80, -2))
        energyReduction ==
            Min(Mul(Div(velocityChange, FromInt(100)), FromInt(6)), FromInt(10))
    IN  [strategy |-> "ion_beam",
         successProbability |-> successProbability,
         velocityChange |-> velocityChange,
         trajectoryDeflection |-> trajectoryDeflection,
         warningTimeNeeded |-> 8,
         energyReduction |-> energyReduction]

\* Mutant of calculateMitigation: the switch has no gravity_tractor case.
calculateMitigation_NoGravityTractor(strategy, asteroidMass, asteroidDiameter, asteroidVelocity, warningTime) ==
    IF strategy = "none" THEN << >>
    ELSE CASE strategy = "kinetic_impactor" ->
                <<calculateKineticImpactor(asteroidMass, asteroidVelocity, warningTime)>>
           [] strategy = "nuclear_device" ->
                <<calculateNuclearDevice(asteroidMass, asteroidDiameter, warningTime)>>
           [] strategy = "ion_beam" ->
                <<calculateIonBeam(asteroidMass, asteroidDiameter, warningTime)>>
           [] OTHER -> << >>

\* The result is a sequence: << >> for null, <<r>> for a MitigationResult r.
calculateMitigation(strategy, asteroidMass, asteroidDiameter, asteroidVelocity, warningTime) ==
    IF strategy = "none" THEN << >>
    ELSE CASE strategy = "kinetic_impactor" ->
                <<calculateKineticImpactor(asteroidMass, asteroidVelocity, warningTime)>>
           [] strategy = "nuclear_device" ->
                <<calculateNuclearDevice(asteroidMass, asteroidDiameter, warningTime)>>
           [] strategy = "gravity_tractor" ->
                <<calculateGravityTractor(asteroidMass, warningTime)>>
           [] strategy = "ion_beam" ->
                <<calculateIonBeam(asteroidMass, asteroidDiameter, warningTime)>>
           [] OTHER -> << >>

(***************************************************************************)
(* State: a caller of the two calculators.                                 *)
(***************************************************************************)
VARIABLES
    data,              \* the AsteroidData the caller passes to calculateImpact
    results,           \* << >>, or <<c>>: the latest call of calculateImpact
    previous,          \* << >>, or <<c>>: the call of calculateImpact before it
    mitigationInput,   \* the arguments the caller passes to calculateMitigation
    mitigationResults, \* << >>, or <<r>>: what calculateMitigation returned
    tsunami,           \* a call of calculateTsunamiHeight: arguments and height
    calls,             \* the calls made so far, oldest first
    db,                \* the table asteroid_simulations and the latest request
    app,               \* the state of the App component
    request,           \* << >>, or <<r>>: the saveSimulation call of the latest step
    nasa,              \* a call of one of the two NASA fetch functions
    joules,            \* calculateEnergy and the joule figure rebuilt from it, in binary64
    loads,             \* the App's requests to the table that are under way
    orbit,             \* the OrbitalSimulation component
    map                \* the ImpactMap component

callerVars == <<data, results, previous, mitigationInput, mitigationResults>>
appVars == <<app, request>>
viewVars == <<nasa, joules, loads, orbit, map>>
vars == <<callerVars, tsunami, calls, db, appVars, viewVars>>

(***************************************************************************)
(* The table asteroid_simulations under row-level security.  A client is   *)
(* a database role with the user id of its session: uid is << >> (null)    *)
(* for the anon role and <<u>> for an authenticated user u.  A row is      *)
(* [id, created_at, user_id, record]: id and created_at are the serial     *)
(* number of the insert (gen_random_uuid() and now()), user_id is << >>    *)
(* when null, record holds the other columns.  The policies bind the       *)
(* clients of the API; the table owner and the service role are not        *)
(* clients of the model.                                                   *)
(***************************************************************************)
Users == {"u1", "u2"}
AnonClient == [role |-> "anon", uid |-> << >>]
Clients == {AnonClient} \cup {[role |-> "authenticated", uid |-> <<u>>] : u \in Users}

\* auth.uid() = user_id: not true when either side is null
UidEquals(uid, user_id) == uid # << >> /\ user_id # << >> /\ uid = user_id

\* "Anyone can view simulations": FOR SELECT USING (true)
SelectPolicy(client, row) == TRUE

\* "Authenticated users can create simulations": TO authenticated WITH CHECK (true)
InsertPolicy(client, row) == client.role = "authenticated"

\* Mutant of UpdatePolicy: any authenticated user may update any row.
UpdatePolicy_AnyAuthenticated(client, row) == client.role = "authenticated"

\* "Users can update own simulations": TO authenticated, the same
\* expression auth.uid() = user_id as USING (on the row as it is) and as
\* WITH CHECK (on the row as it would become)
UpdatePolicy(client, row) ==
    client.role = "authenticated" /\ UidEquals(client.uid, row.user_id)

\* "Users can delete own simulations": TO authenticated USING (auth.uid() = user_id)
DeletePolicy(client, row) ==
    client.role = "authenticated" /\ UidEquals(client.uid, row.user_id)

\* the latest request: its operation, its client, the row it was aimed at
\* (before), the row it stored or, for an update, proposed (after), whether
\* it took effect, and the rows it returned
NoRequest ==
    [op |-> "none", client |-> AnonClient, before |-> << >>, after |-> << >>,
     accepted |-> FALSE, returned |-> << >>]

EmptyDb == [rows |-> << >>, serial |-> 0, last |-> NoRequest]

\* order by created_at desc: place k holds the row with k - 1 newer rows
\* (created_at is the serial number of the insert, so no two rows tie)
NewestFirst(rows) ==
    [k \in 1..Len(rows) |->
        rows[CHOOSE i \in 1..Len(rows) :
                Cardinality({j \in 1..Len(rows) :
                                rows[j].created_at > rows[i].created_at}) = k - 1]]

\* the rows of d the select policy lets a client see
Visible(d, client) == SelectSeq(d.rows, LAMBDA row : SelectPolicy(client, row))

\* select('*').order('created_at', { ascending: false }).limit(limit)
DbSelectRecent(d, client, limit) ==
    LET sorted == NewestFirst(Visible(d, client))
    IN  SubSeq(sorted, 1, IF Len(sorted) < limit THEN Len(sorted) ELSE limit)

\* insert([record]) by client, user_id as the request gives it: the new
\* row must pass the insert policy, or the request fails
DbInsert(d, client, record, user_id) ==
    LET row == [id |-> d.serial + 1, created_at |-> d.serial + 1,
                user_id |-> user_id, record |-> record]
        accepted == InsertPolicy(client, row)
    IN  [rows |-> IF accepted THEN Append(d.rows, row) ELSE d.rows,
         serial |-> IF accepted THEN d.serial + 1 ELSE d.serial,
         last |-> [op |-> "insert", client |-> client, before |-> << >>,
                   after |-> IF accepted THEN <<row>> ELSE << >>,
                   accepted |-> accepted,
                   returned |-> IF accepted THEN <<row>> ELSE << >>]]

\* update of the row at index i: a new name and the user_id given
DbUpdate(d, client, i, user_id) ==
    LET old == d.rows[i]
        new == [old EXCEPT !.user_id = user_id, !.record.name = "Renamed"]
        accepted == UpdatePolicy(client, old) /\ UpdatePolicy(client, new)
    IN  [rows |-> IF accepted THEN [d.rows EXCEPT ![i] = new] ELSE d.rows,
         serial |-> d.serial,
         last |-> [op |-> "update", client |-> client, before |-> <<old>>,
                   after |-> <<new>>, accepted |-> accepted,
                   returned |-> IF accepted THEN <<new>> ELSE << >>]]

\* delete of the row at index i
DbDelete(d, client, i) ==
    LET old == d.rows[i]
        accepted == DeletePolicy(client, old)
    IN  [rows |-> IF accepted
                  THEN SubSeq(d.rows, 1, i - 1) \o SubSeq(d.rows, i + 1, Len(d.rows))
                  ELSE d.rows,
         serial |-> d.serial,
         last |-> [op |-> "delete", client |-> client, before |-> <<old>>,
                   after |-> << >>, accepted |-> accepted, returned |-> << >>]]

\* select('*') by client
DbSelect(d, client) ==
    [d EXCEPT !.last = [op |-> "select", client |-> client, before |-> << >>,
                        after |-> << >>, accepted |-> TRUE,
                        returned |-> Visible(d, client)]]

\* Inputs.  Diameters in m, velocities in km/s, angles in degrees, latitudes
\* and longitudes in tenths of a degree (on, inside and outside the edges of
\* the three ocean boxes), draws of Math.random() in hundredths (the two
\* on either side of EARTH_OCEAN_COVERAGE).
Diameters == {50, 499, 500, 10000}
Velocities == {11, 20}
Angles == {0, 45, 90}
Latitudes == {-600, -500, 0, 200, 599, 600}
Longitudes == {-1000, -700, -400, -100, 0, 400, 450, 800, 1200, 1500}
Randoms == {70, 71}

Strategies == {"none", "kinetic_impactor", "nuclear_device", "gravity_tractor", "ion_beam"}
Masses == {FromInt(100), FromInt(250), FromInt(500), FromInt(1000), Lit(1963, 8)}
MitigationDiameters == {50, 500}
MitigationVelocities == {15, 30}
WarningTimes == {-1, 0, 1, 2, 3, 4, 5, 8, 9, 10, 20, 100}

\* the App's initial parameters
DefaultData ==
    [diameter |-> 500, velocity |-> 20, angle |-> 45, impactLat |-> 407, impactLon |-> -740]

DefaultMitigationInput ==
    [strategy |-> "none", asteroidMass |-> Lit(1963, 8), asteroidDiameter |-> 500,
     asteroidVelocity |-> 15, warningTime |-> 5]

\* the doubles of an AsteroidData whose diameter and velocity are integers
Doubles(d) ==
    [diameter |-> FromInt(d.diameter), velocity |-> FromInt(d.velocity),
     angle |-> d.angle, impactLat |-> d.impactLat, impactLon |-> d.impactLon]

\* The App component as first rendered: the useState defaults, with both
\* effects still to run.  results and mitigationResults are << >> for
\* null; alert is the text of the alert the latest step raised, if any.
InitialApp ==
    [diameter |-> 500, velocity |-> 20, angle |-> 45,
     impactLat |-> 407, impactLon |-> -740,
     mitigation |-> "none", warningTime |-> 5,
     simulationName |-> "Custom Simulation",
     results |-> << >>, mitigationResults |-> << >>,
     recentSimulations |-> << >>, showHistory |-> FALSE,
     mounted |-> FALSE, pending |-> TRUE, alert |-> << >>]

\* the App has sent nothing to the table
NoLoads == [client |-> AnonClient, saves |-> << >>, calls |-> << >>]

\* no OrbitalSimulation has been mounted: sceneRef.current is {} (0 stands
\* for an undefined animationId, << >> for an undefined object)
NoOrbit ==
    [mounted |-> FALSE, unmounted |-> FALSE, props |-> << >>, animationId |-> 0,
     pending |-> {}, mitigatedTrajectory |-> << >>, asteroid |-> << >>]

\* no ImpactMap has been mounted: mapRef.current is null, markersRef.current
\* is {} (0 stands for an undefined layer)
NoMap ==
    [mounted |-> FALSE, props |-> << >>, created |-> 0, layers |-> {}, view |-> << >>,
     markers |-> [impact |-> 0, crater |-> 0, shockwave |-> 0, thermal |-> 0]]

\* no energy has been computed
NoJoules == [mass |-> 1, velocity |-> 1, energy |-> << >>, energyJoules |-> << >>]

\* no call of a fetch function is under way
NoFetch ==
    [call |-> "none", network |-> "ok", payload |-> << >>, pc |-> "done",
     asteroids |-> << >>, settled |-> << >>]

\* no call of calculateTsunamiHeight is under way
NoTsunamiCall ==
    [energy |-> Zero, craterDiameter |-> Zero, waterDepth |-> << >>, height |-> << >>]

Init ==
    /\ data \in [diameter : Diameters, velocity : Velocities, angle : Angles,
                 impactLat : Latitudes, impactLon : Longitudes]
    /\ results = << >>
    /\ previous = << >>
    /\ mitigationInput = DefaultMitigationInput
    /\ mitigationResults = << >>
    /\ tsunami = NoTsunamiCall
    /\ calls = << >>
    /\ db = EmptyDb
    /\ app = InitialApp
    /\ request = << >>
    /\ nasa = NoFetch
    /\ joules = NoJoules
    /\ loads = NoLoads
    /\ orbit = NoOrbit
    /\ map = NoMap

\* One call calculateImpact(data); random is what Math.random() returns if
\* the call consults it.  The call is recorded with its argument, its
\* result and the draw it consumed (<<random>>, or << >> when it made none).
CalculateImpact(random) ==
    LET c == calculateImpact(Doubles(data), random)
    IN  /\ results' = <<[data |-> data, results |-> c.results,
                         drawn |-> IF c.drawn THEN <<random>> ELSE << >>]>>
        /\ previous' = results
        /\ UNCHANGED <<viewVars, data, mitigationInput, mitigationResults, tsunami, calls, db, appVars>>

\* The caller changes the diameter between two calls.
SetDiameter(d) ==
    /\ d # data.diameter
    /\ data' = [data EXCEPT !.diameter = d]
    /\ UNCHANGED <<viewVars, results, previous, mitigationInput, mitigationResults, tsunami, calls, db, appVars>>

Next ==
    \/ \E random \in Randoms : CalculateImpact(random)
    \/ \E d \in Diameters : SetDiameter(d)

Spec == Init /\ [][Next]_vars

\* The mitigation calculator alone: the arguments are drawn, then one call.
InitMitigation ==
    /\ data = DefaultData
    /\ results = << >>
    /\ previous = << >>
    /\ mitigationInput \in
         [strategy : Strategies, asteroidMass : Masses,
          asteroidDiameter : MitigationDiameters,
          asteroidVelocity : MitigationVelocities, warningTime : WarningTimes]
    /\ mitigationResults = << >>
    /\ tsunami = NoTsunamiCall
    /\ calls = << >>
    /\ db = EmptyDb
    /\ app = InitialApp
    /\ request = << >>
    /\ nasa = NoFetch
    /\ joules = NoJoules
    /\ loads = NoLoads
    /\ orbit = NoOrbit
    /\ map = NoMap

\* One call of calculateMitigation; the caller keeps what it returned
\* (null or a result) next to a mark that the call was made.
CalculateMitigation ==
    /\ mitigationResults = << >>
    /\ mitigationResults' =
         <<calculateMitigation(mitigationInput.strategy,
                               mitigationInput.asteroidMass,
                               FromInt(mitigationInput.asteroidDiameter),
                               FromInt(mitigationInput.asteroidVelocity),
                               FromInt(mitigationInput.warningTime))>>
    /\ UNCHANGED <<viewVars, data, results, previous, mitigationInput, tsunami, calls, db, appVars>>

NextMitigation == CalculateMitigation

SpecMitigation == InitMitigation /\ [][NextMitigation]_vars

\* calculateTsunamiHeight alone.  Energies in megatons, crater diameters in
\* km; waterDepth is << >> when the caller leaves the parameter out, as
\* calculateImpact does, and <<depth>> in metres otherwise.
TsunamiEnergies == {FromInt(1), FromInt(16), FromInt(10000), Lit(938, 4), Lit(1, 8)}
TsunamiCraterDiameters ==
    {Lit(1, -1), FromInt(1), FromInt(5), FromInt(20), FromInt(25), FromInt(100)}
WaterDepths == {<< >>, <<10>>, <<100>>}

InitTsunami ==
    /\ data = DefaultData
    /\ results = << >>
    /\ previous = << >>
    /\ mitigationInput = DefaultMitigationInput
    /\ mitigationResults = << >>
    /\ tsunami \in [energy : TsunamiEnergies, craterDiameter : TsunamiCraterDiameters,
                    waterDepth : WaterDepths, height : {<< >>}]
    /\ calls = << >>
    /\ db = EmptyDb
    /\ app = InitialApp
    /\ request = << >>
    /\ nasa = NoFetch
    /\ joules = NoJoules
    /\ loads = NoLoads
    /\ orbit = NoOrbit
    /\ map = NoMap

\* the waterDepth parameter: its default when the argument is left out
WaterDepthOr4000(waterDepth) ==
    IF waterDepth = << >> THEN FromInt(DefaultWaterDepth) ELSE FromInt(waterDepth[1])

\* One call of calculateTsunamiHeight.
CalculateTsunamiHeight ==
    /\ tsunami.height = << >>
    /\ tsunami' =
         [tsunami EXCEPT !.height =
             <<calculateTsunamiHeight(tsunami.energy, tsunami.craterDiameter,
                                      WaterDepthOr4000(tsunami.waterDepth))>>]
    /\ UNCHANGED <<viewVars, callerVars, calls, db, appVars>>

NextTsunami == CalculateTsunamiHeight

SpecTsunami == InitTsunami /\ [][NextTsunami]_vars

\* The two calculators on arguments outside their ranges: a diameter, a
\* velocity, a mass or a warning time that is zero or negative, an angle
\* below 0 or above 90 degrees, coordinates off the globe.  Either the
\* AsteroidData or the arguments of calculateMitigation are drawn from
\* these sets, which hold one valid value each.
MalformedDiameters == {-500, 0, 500}
MalformedVelocities == {-20, 0, 20}
MalformedAngles == {-30, 45, 120}
MalformedLatitudes == {-950, 0, 950}
MalformedLongitudes == {-2000, 0, 2000}
MalformedMasses == {FromInt(-100), Zero, FromInt(1000)}
MalformedMitigationVelocities == {-15, 0, 15}
MalformedWarningTimes == {-1, 0, 5}

InitMalformed ==
    /\ results = << >>
    /\ previous = << >>
    /\ mitigationResults = << >>
    /\ tsunami = NoTsunamiCall
    /\ calls = << >>
    /\ db = EmptyDb
    /\ app = InitialApp
    /\ request = << >>
    /\ nasa = NoFetch
    /\ joules = NoJoules
    /\ loads = NoLoads
    /\ orbit = NoOrbit
    /\ map = NoMap
    /\ \/ /\ data \in [diameter : MalformedDiameters, velocity : MalformedVelocities,
                       angle : MalformedAngles, impactLat : MalformedLatitudes,
                       impactLon : MalformedLongitudes]
          /\ mitigationInput = DefaultMitigationInput
       \/ /\ data = DefaultData
          /\ mitigationInput \in
               [strategy : Strategies, asteroidMass : MalformedMasses,
                asteroidDiameter : MalformedDiameters,
                asteroidVelocity : MalformedMitigationVelocities,
                warningTime : MalformedWarningTimes]

NextMalformed ==
    \/ \E random \in Randoms : CalculateImpact(random)
    \/ CalculateMitigation

SpecMalformed == InitMalformed /\ [][NextMalformed]_vars

\* A caller that interleaves calls of the two calculators in any order and
\* keeps a record of each call: the function, its arguments, the draw of
\* Math.random() it consumed (<< >> when it made none) and what it returned.
MaxCalls == 3
CallsData == {DefaultData, [DefaultData EXCEPT !.impactLat = 0, !.impactLon = 0]}
CallsMitigationInputs ==
    {[DefaultMitigationInput EXCEPT !.strategy = s] :
        s \in {"none", "kinetic_impactor", "gravity_tractor"}}

InitCalls ==
    /\ data = DefaultData
    /\ results = << >>
    /\ previous = << >>
    /\ mitigationInput = DefaultMitigationInput
    /\ mitigationResults = << >>
    /\ tsunami = NoTsunamiCall
    /\ calls = << >>
    /\ db = EmptyDb
    /\ app = InitialApp
    /\ request = << >>
    /\ nasa = NoFetch
    /\ joules = NoJoules
    /\ loads = NoLoads
    /\ orbit = NoOrbit
    /\ map = NoMap

\* the ImpactResults of the latest call of calculateImpact recorded, if any
LastImpactResults ==
    LET made == {i \in 1..Len(calls) : calls[i].fn = "calculateImpact"}
    IN  IF made = {} THEN << >>
        ELSE <<calls[CHOOSE i \in made : \A j \in made : j <= i].result>>

\* Mutant of CallImpact: the results object is one module-level object that
\* every call fills in, so a tsunamiHeight set by an earlier ocean impact
\* is still there after a later land impact.
CallImpact_SharedResults(d, random) ==
    LET c == calculateImpact(Doubles(d), random)
        r == IF ~c.results.isOceanImpact /\ LastImpactResults # << >>
             THEN [c.results EXCEPT !.tsunamiHeight = LastImpactResults[1].tsunamiHeight]
             ELSE c.results
    IN  /\ Len(calls) < MaxCalls
        /\ calls' = Append(calls, [fn |-> "calculateImpact", args |-> d,
                                   drawn |-> IF c.drawn THEN <<random>> ELSE << >>,
                                   result |-> r])
        /\ UNCHANGED <<viewVars, callerVars, tsunami, db, appVars>>

\* One call calculateImpact(d), at any point of the interleaving.
CallImpact(d, random) ==
    LET c == calculateImpact(Doubles(d), random)
    IN  /\ Len(calls) < MaxCalls
        /\ calls' = Append(calls, [fn |-> "calculateImpact", args |-> d,
                                   drawn |-> IF c.drawn THEN <<random>> ELSE << >>,
                                   result |-> c.results])
        /\ UNCHANGED <<viewVars, callerVars, tsunami, db, appVars>>

\* One call of calculateMitigation with the arguments m.
CallMitigation(m) ==
    /\ Len(calls) < MaxCalls
    /\ calls' = Append(calls,
         [fn |-> "calculateMitigation", args |-> m, drawn |-> << >>,
          result |-> calculateMitigation(m.strategy, m.asteroidMass,
                                         FromInt(m.asteroidDiameter),
                                         FromInt(m.asteroidVelocity),
                                         FromInt(m.warningTime))])
    /\ UNCHANGED <<viewVars, callerVars, tsunami, db, appVars>>

NextCalls ==
    \/ \E d \in CallsData, random \in Randoms : CallImpact(d, random)
    \/ \E m \in CallsMitigationInputs : CallMitigation(m)

SpecCalls == InitCalls /\ [][NextCalls]_vars

\* The clients of the table.  The record of a row is the flattened
\* simulation handleSaveSimulation builds, here the App's initial one.
MaxRows == 2
SampleRecord ==
    LET r == calculateImpact(Doubles(DefaultData), 70).results
    IN  [name |-> "Custom Simulation",
         diameter_meters |-> DefaultData.diameter,
         velocity_km_s |-> DefaultData.velocity,
         angle_degrees |-> DefaultData.angle,
         impact_lat |-> DefaultData.impactLat,
         impact_lon |-> DefaultData.impactLon,
         mass_kg |-> r.mass,
         energy_megatons |-> r.energy,
         crater_diameter_km |-> r.craterDiameter,
         is_ocean_impact |-> r.isOceanImpact,
         mitigation_applied |-> << >>]

InitDb ==
    /\ data = DefaultData
    /\ results = << >>
    /\ previous = << >>
    /\ mitigationInput = DefaultMitigationInput
    /\ mitigationResults = << >>
    /\ tsunami = NoTsunamiCall
    /\ calls = << >>
    /\ db = EmptyDb
    /\ app = InitialApp
    /\ request = << >>
    /\ nasa = NoFetch
    /\ joules = NoJoules
    /\ loads = NoLoads
    /\ orbit = NoOrbit
    /\ map = NoMap

ClientInsert(client, user_id) ==
    /\ db.serial < MaxRows
    /\ \E record \in {SampleRecord} : db' = DbInsert(db, client, record, user_id)
    /\ UNCHANGED <<viewVars, callerVars, tsunami, calls, appVars>>

ClientUpdate(client, i, user_id) ==
    /\ i \in 1..Len(db.rows)
    /\ db' = DbUpdate(db, client, i, user_id)
    /\ UNCHANGED <<viewVars, callerVars, tsunami, calls, appVars>>

ClientDelete(client, i) ==
    /\ i \in 1..Len(db.rows)
    /\ db' = DbDelete(db, client, i)
    /\ UNCHANGED <<viewVars, callerVars, tsunami, calls, appVars>>

ClientSelect(client) ==
    /\ db' = DbSelect(db, client)
    /\ UNCHANGED <<viewVars, callerVars, tsunami, calls, appVars>>

UserIds == {<< >>} \cup {<<u>> : u \in Users}

NextDb ==
    \/ \E client \in Clients, user_id \in UserIds : ClientInsert(client, user_id)
    \/ \E client \in Clients, i \in 1..MaxRows, user_id \in UserIds :
          ClientUpdate(client, i, user_id)
    \/ \E client \in Clients, i \in 1..MaxRows : ClientDelete(client, i)
    \/ \E client \in Clients : ClientSelect(client)

SpecDb == InitDb /\ [][NextDb]_vars

(***************************************************************************)
(* The App.  A handler that changes one of the seven dependencies of the   *)
(* recompute effect triggers the effect, which runs before the next event  *)
(* is handled: handler and effect are one step.  Only the first render,    *)
(* whose effect is deferred until after paint, can receive an event with   *)
(* results null.                                                           *)
(***************************************************************************)
RecentLimit == 5
MaxSaved == 2
AppDiameters == {50, 500}
AppStrategies == {"none", "kinetic_impactor"}
AppWarningTimes == {5, 10}
MapClicks == {<<0, 0>>}
\* an asteroid of the NASA feed, and a historical impact
PresetAsteroids ==
    {[name |-> "Asteroid", estimatedDiameter |-> [average |-> 50], velocity |-> 11]}
HistoricalImpacts ==
    {[name |-> "Chicxulub (Dinosaur Extinction)", diameter |-> 10000, velocity |-> 20,
      location |-> [lat |-> 213, lon |-> -895]]}

\* the five parameters of the App as an AsteroidData
AsteroidDataOf(a) ==
    [diameter |-> a.diameter, velocity |-> a.velocity, angle |-> a.angle,
     impactLat |-> a.impactLat, impactLon |-> a.impactLon]

\* the dependency array of the recompute effect
Dependencies(a) ==
    <<a.diameter, a.velocity, a.angle, a.impactLat, a.impactLon, a.mitigation,
      a.warningTime>>

Interactive == ~app.pending \/ app.results = << >>

InitApp ==
    /\ data = DefaultData
    /\ results = << >>
    /\ previous = << >>
    /\ mitigationInput = DefaultMitigationInput
    /\ mitigationResults = << >>
    /\ tsunami = NoTsunamiCall
    /\ calls = << >>
    /\ db = EmptyDb
    /\ app = InitialApp
    /\ request = << >>
    /\ nasa = NoFetch
    /\ joules = NoJoules
    /\ loads = NoLoads
    /\ orbit = NoOrbit
    /\ map = NoMap

\* useEffect(..., []): loadRecentSimulations(5) fills the history list
MountEffect ==
    /\ ~app.mounted
    /\ app' = [app EXCEPT !.mounted = TRUE, !.alert = << >>,
                          !.recentSimulations = DbSelectRecent(db, AnonClient, RecentLimit)]
    /\ request' = << >>
    /\ UNCHANGED <<viewVars, callerVars, tsunami, calls, db>>

\* Mutant of RecomputeEffect: setMitigationResults(null) is missing, so an
\* earlier strategy's result stays when mitigation goes back to 'none'.
RecomputeEffect_KeepsMitigation(a, random) ==
    \E impactResults \in {calculateImpact(Doubles(AsteroidDataOf(a)), random).results} :
        app' = [a EXCEPT
            !.pending = FALSE,
            !.results = <<impactResults>>,
            !.mitigationResults =
                IF a.mitigation # "none"
                THEN calculateMitigation(a.mitigation, impactResults.mass,
                                         FromInt(a.diameter), FromInt(a.velocity),
                                         FromInt(a.warningTime))
                ELSE a.mitigationResults]

\* The recompute effect on the rendered state a; random is the draw
\* calculateImpact may consume.
RecomputeEffect(a, random) ==
    \E impactResults \in {calculateImpact(Doubles(AsteroidDataOf(a)), random).results} :
        app' = [a EXCEPT
            !.pending = FALSE,
            !.results = <<impactResults>>,
            !.mitigationResults =
                IF a.mitigation # "none"
                THEN calculateMitigation(a.mitigation, impactResults.mass,
                                         FromInt(a.diameter), FromInt(a.velocity),
                                         FromInt(a.warningTime))
                ELSE << >>]

\* The render that follows a handler's setters, a being the state they
\* leave.  On the first render the effect is still to come; afterwards the
\* effect runs with the handler when a dependency has changed.  The
\* previous step's alert is gone.
Committed(a, random) ==
    \E shown \in {[a EXCEPT !.alert = << >>]} :
        IF app.pending \/ Dependencies(shown) = Dependencies(app)
        THEN app' = shown
        ELSE RecomputeEffect(shown, random)

\* the effect of the first render
FirstRecompute(random) ==
    /\ app.pending
    /\ RecomputeEffect([app EXCEPT !.alert = << >>], random)
    /\ request' = << >>
    /\ UNCHANGED <<viewVars, callerVars, tsunami, calls, db>>

\* the diameter and warning-time sliders and the strategy selector of the
\* ControlPanel
OnDiameterChange(d, random) ==
    /\ Interactive
    /\ Committed([app EXCEPT !.diameter = d], random)
    /\ request' = << >>
    /\ UNCHANGED <<viewVars, callerVars, tsunami, calls, db>>

OnMitigationChange(strategy, random) ==
    /\ Interactive
    /\ Committed([app EXCEPT !.mitigation = strategy], random)
    /\ request' = << >>
    /\ UNCHANGED <<viewVars, callerVars, tsunami, calls, db>>

OnWarningTimeChange(warningTime, random) ==
    /\ Interactive
    /\ Committed([app EXCEPT !.warningTime = warningTime], random)
    /\ request' = << >>
    /\ UNCHANGED <<viewVars, callerVars, tsunami, calls, db>>

\* a click on the ImpactMap, which is rendered once results exist
OnLocationChange(lat, lon, random) ==
    /\ Interactive
    /\ app.results # << >>
    /\ Committed([app EXCEPT !.impactLat = lat, !.impactLon = lon], random)
    /\ request' = << >>
    /\ UNCHANGED <<viewVars, callerVars, tsunami, calls, db>>

handleLoadPreset(asteroid, random) ==
    /\ Interactive
    /\ Committed([app EXCEPT !.diameter = asteroid.estimatedDiameter.average,
                                    !.velocity = asteroid.velocity,
                                    !.simulationName = asteroid.name,
                                    !.angle = 45], random)
    /\ request' = << >>
    /\ UNCHANGED <<viewVars, callerVars, tsunami, calls, db>>

\* the History button
ToggleHistory ==
    /\ Interactive
    /\ app' = [app EXCEPT !.showHistory = ~app.showHistory, !.alert = << >>]
    /\ request' = << >>
    /\ UNCHANGED <<viewVars, callerVars, tsunami, calls, db>>

handleLoadHistorical(scenario, random) ==
    /\ Interactive
    /\ app.showHistory
    /\ Committed([app EXCEPT !.diameter = scenario.diameter,
                                    !.velocity = scenario.velocity,
                                    !.impactLat = scenario.location.lat,
                                    !.impactLon = scenario.location.lon,
                                    !.simulationName = scenario.name,
                                    !.angle = 45], random)
    /\ request' = << >>
    /\ UNCHANGED <<viewVars, callerVars, tsunami, calls, db>>

\* Mutant of handleLoadSimulation: a record without a label sets the
\* strategy to 'none'.
handleLoadSimulation_ResetsMitigation(i, random) ==
    /\ Interactive
    /\ app.showHistory
    /\ i \in 1..Len(app.recentSimulations)
    /\ LET sim == app.recentSimulations[i].record
       IN  Committed([app EXCEPT
                     !.diameter = sim.diameter_meters,
                     !.velocity = sim.velocity_km_s,
                     !.angle = sim.angle_degrees,
                     !.impactLat = sim.impact_lat,
                     !.impactLon = sim.impact_lon,
                     !.simulationName = sim.name,
                     !.mitigation = IF sim.mitigation_applied # << >>
                                    THEN sim.mitigation_applied[1]
                                    ELSE "none",
                     !.showHistory = FALSE], random)
    /\ request' = << >>
    /\ UNCHANGED <<viewVars, callerVars, tsunami, calls, db>>

\* a click on entry i of "Your Recent Simulations"
handleLoadSimulation(i, random) ==
    /\ Interactive
    /\ app.showHistory
    /\ i \in 1..Len(app.recentSimulations)
    /\ LET sim == app.recentSimulations[i].record
       IN  Committed([app EXCEPT
                     !.diameter = sim.diameter_meters,
                     !.velocity = sim.velocity_km_s,
                     !.angle = sim.angle_degrees,
                     !.impactLat = sim.impact_lat,
                     !.impactLon = sim.impact_lon,
                     !.simulationName = sim.name,
                     !.mitigation = IF sim.mitigation_applied # << >>
                                    THEN sim.mitigation_applied[1]
                                    ELSE app.mitigation,
                     !.showHistory = FALSE], random)
    /\ request' = << >>
    /\ UNCHANGED <<viewVars, callerVars, tsunami, calls, db>>

\* Mutant of handleSaveSimulation: mitigation_applied is always the
\* strategy id, 'none' included.
handleSaveSimulation_AlwaysLabelled ==
    /\ Interactive
    /\ db.serial < MaxSaved
    /\ IF app.results = << >>
       THEN /\ app' = [app EXCEPT !.alert = << >>]
            /\ request' = << >>
            /\ db' = db
       ELSE LET record ==
                    [name |-> app.simulationName,
                     diameter_meters |-> app.diameter,
                     velocity_km_s |-> app.velocity,
                     angle_degrees |-> app.angle,
                     impact_lat |-> app.impactLat,
                     impact_lon |-> app.impactLon,
                     mass_kg |-> app.results[1].mass,
                     energy_megatons |-> app.results[1].energy,
                     crater_diameter_km |-> app.results[1].craterDiameter,
                     is_ocean_impact |-> app.results[1].isOceanImpact,
                     mitigation_applied |-> <<app.mitigation>>]
            IN  \E saved \in {DbInsert(db, AnonClient, record, << >>)} :
                    /\ request' = <<[record |-> record, error |-> ~saved.last.accepted]>>
                    /\ db' = saved
                    /\ IF saved.last.accepted
                       THEN app' = [app EXCEPT
                                !.alert = <<"Simulation saved successfully!">>,
                                !.recentSimulations =
                                    DbSelectRecent(saved, AnonClient, RecentLimit)]
                       ELSE app' = [app EXCEPT !.alert = <<"Error saving simulation">>]
    /\ UNCHANGED <<viewVars, callerVars, tsunami, calls>>

\* The Save button.  saveSimulation inserts the record as the App's
\* client, which holds the anon key and no session; the record names no
\* user_id.  An insert the database refuses makes saveSimulation throw.
handleSaveSimulation ==
    /\ Interactive
    /\ db.serial < MaxSaved
    /\ IF app.results = << >>
       THEN /\ app' = [app EXCEPT !.alert = << >>]
            /\ request' = << >>
            /\ db' = db
       ELSE LET record ==
                    [name |-> app.simulationName,
                     diameter_meters |-> app.diameter,
                     velocity_km_s |-> app.velocity,
                     angle_degrees |-> app.angle,
                     impact_lat |-> app.impactLat,
                     impact_lon |-> app.impactLon,
                     mass_kg |-> app.results[1].mass,
                     energy_megatons |-> app.results[1].energy,
                     crater_diameter_km |-> app.results[1].craterDiameter,
                     is_ocean_impact |-> app.results[1].isOceanImpact,
                     mitigation_applied |->
                         IF app.mitigation # "none" THEN <<app.mitigation>> ELSE << >>]
            IN  \E saved \in {DbInsert(db, AnonClient, record, << >>)} :
                    /\ request' = <<[record |-> record, error |-> ~saved.last.accepted]>>
                    /\ db' = saved
                    /\ IF saved.last.accepted
                       THEN app' = [app EXCEPT
                                !.alert = <<"Simulation saved successfully!">>,
                                !.recentSimulations =
                                    DbSelectRecent(saved, AnonClient, RecentLimit)]
                       ELSE app' = [app EXCEPT !.alert = <<"Error saving simulation">>]
    /\ UNCHANGED <<viewVars, callerVars, tsunami, calls>>

\* Another client of the table, signed in as u1, stores a simulation, with
\* the kinetic impactor applied or with no mitigation.
OtherUserSaves ==
    /\ db.serial < MaxSaved
    /\ \E record \in {[SampleRecord EXCEPT !.name = "Shared Simulation",
                                             !.diameter_meters = 50,
                                             !.mitigation_applied = label] :
                       label \in {<< >>, <<"kinetic_impactor">>}} :
          db' = DbInsert(db, [role |-> "authenticated", uid |-> <<"u1">>], record, <<"u1">>)
    /\ UNCHANGED <<viewVars, callerVars, tsunami, calls, appVars>>

NextApp ==
    \/ MountEffect
    \/ \E random \in Randoms : FirstRecompute(random)
    \/ \E d \in AppDiameters, random \in Randoms : OnDiameterChange(d, random)
    \/ \E strategy \in AppStrategies, random \in Randoms :
          OnMitigationChange(strategy, random)
    \/ \E warningTime \in AppWarningTimes, random \in Randoms :
          OnWarningTimeChange(warningTime, random)
    \/ \E click \in MapClicks, random \in Randoms :
          OnLocationChange(click[1], click[2], random)
    \/ \E asteroid \in PresetAsteroids, random \in Randoms :
          handleLoadPreset(asteroid, random)
    \/ ToggleHistory
    \/ \E scenario \in HistoricalImpacts, random \in Randoms :
          handleLoadHistorical(scenario, random)
    \/ \E i \in 1..RecentLimit, random \in Randoms : handleLoadSimulation(i, random)
    \/ handleSaveSimulation
    \/ OtherUserSaves

SpecApp == InitApp /\ [][NextApp]_vars

(***************************************************************************)
(* Properties                                                              *)
(***************************************************************************)
Called == mitigationResults # << >>
Returned == mitigationResults[1]

\* the three ocean bounding boxes, in tenths of a degree
InOceanBox(lat, lon) ==
    \/ (lon > 1200 \/ lon < -700) /\ Abs(lat) < 600
    \/ lon > -700 /\ lon < -100 /\ Abs(lat) < 600
    \/ lon > 400 /\ lon < 1200 /\ lat > -500 /\ lat < 200

\* C1: calculateMitigation returns null exactly for the strategy 'none',
\* whatever the mass, diameter, velocity and warning time; each of the four
\* other strategies gets a result, and it is the result of that strategy.
C1_NullIffNone ==
    Called =>
        /\ (Returned = << >>) <=> (mitigationInput.strategy = "none")
        /\ Returned # << >> => Returned[1].strategy = mitigationInput.strategy

C1_Witness ==
    /\ Called
    /\ mitigationInput.strategy = "none"
    /\ mitigationInput.warningTime = 100
    /\ Returned = << >>

\* C2: in every result of calculateImpact, tsunamiHeight is present if and
\* only if isOceanImpact is true.
C2_TsunamiIffOcean ==
    results # << >> =>
        (results[1].results.tsunamiHeight # << >>) <=> results[1].results.isOceanImpact

C2_Witness ==
    /\ results # << >>
    /\ results[1].results.isOceanImpact
    /\ results[1].results.tsunamiHeight # << >>
    /\ results[1].results.tsunamiHeight[1].sgn = 1

\* Two recorded calls of calculateImpact with the same argument.
SameInputs == results # << >> /\ previous # << >> /\ results[1].data = previous[1].data

\* C3 as claimed: for fixed inputs two calls return the same mass, energy,
\* crater diameter, crater depth, shockwave radius, thermal radius and
\* seismic magnitude, at every coordinate.
C3_Original ==
    SameInputs =>
        LET r == results[1].results
            q == previous[1].results
        IN  /\ r.mass = q.mass
            /\ r.energy = q.energy
            /\ r.craterDiameter = q.craterDiameter
            /\ r.craterDepth = q.craterDepth
            /\ r.shockwaveRadius = q.shockwaveRadius
            /\ r.thermalRadius = q.thermalRadius
            /\ r.seismicMagnitude = q.seismicMagnitude

\* C3 amended: for fixed inputs two calls return the same mass, energy,
\* shockwave radius, thermal radius, seismic magnitude and population at
\* every coordinate; they return the same crater diameter, crater depth and
\* tsunami height whenever they return the same ocean flag, which they do at
\* every coordinate inside an ocean bounding box.
C3_Deterministic ==
    SameInputs =>
        LET r == results[1].results
            q == previous[1].results
            d == results[1].data
        IN  /\ r.mass = q.mass
            /\ r.energy = q.energy
            /\ r.shockwaveRadius = q.shockwaveRadius
            /\ r.thermalRadius = q.thermalRadius
            /\ r.seismicMagnitude = q.seismicMagnitude
            /\ r.affectedPopulation = q.affectedPopulation
            /\ r.isOceanImpact = q.isOceanImpact => r = q
            /\ InOceanBox(d.impactLat, d.impactLon) => r = q

C3_Witness ==
    /\ SameInputs
    /\ results[1].results.isOceanImpact # previous[1].results.isOceanImpact
    /\ results[1].results.craterDiameter # previous[1].results.craterDiameter
    /\ results[1].results.mass = previous[1].results.mass

\* C4: at every coordinate inside one of the three bounding boxes
\* isOceanImpact returns true without consulting the random source.
C4_BoxIsOcean ==
    results # << >> =>
        LET d == results[1].data
        IN  InOceanBox(d.impactLat, d.impactLon) =>
                results[1].results.isOceanImpact /\ results[1].drawn = << >>

\* (lat 0, lon 150), in the Pacific box
C4_Witness ==
    /\ results # << >>
    /\ results[1].data.impactLat = 0
    /\ results[1].data.impactLon = 1500
    /\ results[1].results.isOceanImpact
    /\ results[1].drawn = << >>

\* C5: at every coordinate outside the three boxes the call consults the
\* random source and returns true exactly when the draw is below 0.71.
C5_OutsideIsDrawn ==
    results # << >> =>
        LET d == results[1].data
        IN  ~InOceanBox(d.impactLat, d.impactLon) =>
                /\ results[1].drawn # << >>
                /\ results[1].results.isOceanImpact <=> (results[1].drawn[1] < 71)

\* two calls at (lat 0, lon 0): one returned true, the other false
C5_Witness ==
    /\ SameInputs
    /\ results[1].data.impactLat = 0
    /\ results[1].data.impactLon = 0
    /\ previous[1].results.isOceanImpact
    /\ ~results[1].results.isOceanImpact

\* C6: in every result of calculateImpact, craterDepth is craterDiameter / 4
\* exactly: four times the depth is the diameter.
C6_DepthIsQuarter ==
    results # << >> =>
        Mul(results[1].results.craterDepth, FromInt(4)) = results[1].results.craterDiameter

C6_Witness ==
    /\ results # << >>
    /\ results[1].results.craterDiameter.sgn = 1
    /\ results[1].results.craterDepth.sgn = 1

\* Two recorded calls whose arguments differ only in diameter, the earlier
\* one with the smaller diameter.
LargerDiameter ==
    /\ results # << >> /\ previous # << >>
    /\ [results[1].data EXCEPT !.diameter = 0] = [previous[1].data EXCEPT !.diameter = 0]
    /\ previous[1].data.diameter < results[1].data.diameter

\* C7 as claimed: with velocity, angle, latitude and longitude fixed, the
\* larger diameter gives a strictly larger mass, energy, crater diameter,
\* shockwave radius and thermal radius.
C7_Original ==
    LargerDiameter =>
        LET r == results[1].results
            q == previous[1].results
        IN  /\ Less(q.mass, r.mass)
            /\ Less(q.energy, r.energy)
            /\ Less(q.craterDiameter, r.craterDiameter)
            /\ Less(q.shockwaveRadius, r.shockwaveRadius)
            /\ Less(q.thermalRadius, r.thermalRadius)

\* C7 amended: the larger diameter gives a strictly larger mass, energy,
\* shockwave radius and thermal radius; it gives a strictly larger crater
\* diameter when the entry angle is above 0 and both calls returned the same
\* ocean flag, and never a smaller one when the flags agree (at angle 0
\* every crater diameter is 0).
C7_Monotone ==
    LargerDiameter =>
        LET r == results[1].results
            q == previous[1].results
        IN  /\ Less(q.mass, r.mass)
            /\ Less(q.energy, r.energy)
            /\ Less(q.shockwaveRadius, r.shockwaveRadius)
            /\ Less(q.thermalRadius, r.thermalRadius)
            /\ r.isOceanImpact = q.isOceanImpact =>
                  /\ Leq(q.craterDiameter, r.craterDiameter)
                  /\ results[1].data.angle > 0 => Less(q.craterDiameter, r.craterDiameter)

\* 499 m then 500 m at 45 degrees
C7_Witness ==
    /\ LargerDiameter
    /\ previous[1].data.diameter = 499
    /\ results[1].data.diameter = 500
    /\ results[1].data.angle = 45
    /\ results[1].results.isOceanImpact = previous[1].results.isOceanImpact
    /\ Less(previous[1].results.craterDiameter, results[1].results.craterDiameter)

\* x is within one percent of y (432 grid steps are log10(1.01))
About(x, y) == x.sgn = 1 /\ y.sgn = 1 /\ Abs(x.lg - y.lg) <= 432

\* C8: for diameter 500 m and velocity 20 km/s the mass is about
\* 1.963e11 kg and the energy about 9380 megatons.
C8_Example ==
    (results # << >> /\ results[1].data.diameter = 500 /\ results[1].data.velocity = 20) =>
        /\ About(results[1].results.mass, Lit(1963, 8))
        /\ About(results[1].results.energy, Lit(938, 1))

\* the highest successProbability of each strategy
ProbabilityCap(strategy) ==
    CASE strategy = "kinetic_impactor" -> Lit(95, -2)
      [] strategy = "nuclear_device" -> Lit(90, -2)
      [] strategy = "gravity_tractor" -> Lit(85, -2)
      [] strategy = "ion_beam" -> Lit(80, -2)

\* C9: for every warning time the kinetic impactor's successProbability is
\* min(warningTime / 5, 0.95), and no strategy's successProbability exceeds
\* its cap: 0.95, 0.90 for nuclear_device, 0.85 for gravity_tractor, 0.80
\* for ion_beam.
C9_ProbabilityCapped ==
    (Called /\ Returned # << >>) =>
        LET p == Returned[1].successProbability
            w == FromInt(mitigationInput.warningTime)
        IN  /\ Leq(p, ProbabilityCap(mitigationInput.strategy))
            /\ mitigationInput.strategy = "kinetic_impactor" =>
                  /\ Leq(p, Div(w, FromInt(5)))
                  /\ p = Lit(95, -2) \/ p = Div(w, FromInt(5))

\* the kinetic impactor with 100 years of warning
C9_Witness ==
    /\ Called /\ Returned # << >>
    /\ mitigationInput.strategy = "kinetic_impactor"
    /\ mitigationInput.warningTime = 100
    /\ Returned[1].successProbability = Lit(95, -2)

\* C10: for every strategy other than 'none' and every warning time, zero
\* and negative ones included, the returned successProbability is in [0, 1].
C10_ProbabilityInUnitInterval ==
    (Called /\ Returned # << >>) =>
        /\ Leq(Zero, Returned[1].successProbability)
        /\ Leq(Returned[1].successProbability, FromInt(1))

\* Math.round is only applied where the grid names its result.
RoundOnGrid == results # << >> => results[1].results.affectedPopulation.sgn # 3

\* The mitigation arguments are all positive.
PositiveMitigationInput ==
    /\ mitigationInput.asteroidMass.sgn = 1
    /\ mitigationInput.asteroidDiameter > 0
    /\ mitigationInput.asteroidVelocity > 0
    /\ mitigationInput.warningTime > 0

\* C11: for every strategy other than 'none' and every positive mass,
\* diameter, velocity and warning time, the returned energyReduction is a
\* percentage in [0, 100].
C11_EnergyReductionIsPercentage ==
    (Called /\ Returned # << >> /\ PositiveMitigationInput) =>
        /\ Leq(Zero, Returned[1].energyReduction)
        /\ Leq(Returned[1].energyReduction, FromInt(100))

\* the highest energyReduction of the three capped strategies
EnergyReductionCap(strategy) ==
    CASE strategy = "nuclear_device" -> FromInt(15)
      [] strategy = "gravity_tractor" -> FromInt(8)
      [] strategy = "ion_beam" -> FromInt(10)

\* C12: for all inputs the energyReduction of nuclear_device never exceeds
\* 15, that of gravity_tractor never exceeds 8 and that of ion_beam never
\* exceeds 10.
C12_EnergyReductionCapped ==
    (Called /\ Returned # << >> /\ mitigationInput.strategy # "kinetic_impactor") =>
        ~Less(EnergyReductionCap(mitigationInput.strategy), Returned[1].energyReduction)

\* a nuclear device on a 100 kg body: the cap of 15 is what is returned
C12_Witness ==
    /\ Called /\ Returned # << >>
    /\ mitigationInput.strategy = "nuclear_device"
    /\ mitigationInput.asteroidMass = FromInt(100)
    /\ Returned[1].energyReduction = FromInt(15)
    /\ Less(FromInt(15), Mul(Div(Returned[1].velocityChange, FromInt(1000)), FromInt(50)))

\* data is a valid AsteroidParameters
ValidData ==
    /\ data.diameter > 0 /\ data.velocity > 0
    /\ data.angle >= 0 /\ data.angle <= 90
    /\ data.impactLat >= -900 /\ data.impactLat <= 900
    /\ data.impactLon >= -1800 /\ data.impactLon <= 1800

\* C13: for every valid AsteroidParameters the affectedPopulation returned
\* by calculateImpact is an integer greater than or equal to 0.
C13_PopulationIsNaturalNumber ==
    (results # << >> /\ ValidData) =>
        /\ IsInteger(results[1].results.affectedPopulation)
        /\ results[1].results.affectedPopulation.sgn \in {0, 1}

\* a land impact with a positive population, and an ocean-region one with 0
C13_Witness ==
    /\ results # << >> /\ ValidData
    /\ populationRegion(data.impactLat, data.impactLon) = "asia"
    /\ results[1].results.affectedPopulation.sgn = 1
    /\ Less(FromInt(1000), results[1].results.affectedPopulation)

\* the returned height for a given initial wave height
HeightFrom(initialHeight) ==
    Mul(Mul(initialHeight, Pow(tsunami.energy, 25, 100)), Lit(1, -1))

\* C20: the height calculateTsunamiHeight returns is initial height x
\* energy^0.25 x 0.1, where the initial height is the smaller of
\* craterDiameter x 1000 / 10 and half the water depth: no more than half
\* the water depth, which is 2000 m when the depth is left at its default.
C20_InitialHeightCapped ==
    tsunami.height # << >> =>
        LET fromCrater == Mul(tsunami.craterDiameter, FromInt(100))
            halfDepth == Mul(WaterDepthOr4000(tsunami.waterDepth), Lit(5, -1))
        IN  /\ Leq(tsunami.height[1], HeightFrom(halfDepth))
            /\ Leq(tsunami.height[1], HeightFrom(fromCrater))
            /\ tsunami.height[1] \in {HeightFrom(halfDepth), HeightFrom(fromCrater)}
            /\ tsunami.waterDepth = << >> =>
                   Leq(tsunami.height[1], HeightFrom(FromInt(2000)))

\* a 25 km crater at the default depth: 2500 m is cut to 2000 m, and with
\* 16 Mt the height is 2000 x 2 x 0.1 = 400 m
C20_Witness ==
    /\ tsunami.height # << >>
    /\ tsunami.waterDepth = << >>
    /\ tsunami.craterDiameter = FromInt(25)
    /\ tsunami.energy = FromInt(16)
    /\ tsunami.height[1] = Lit(4, 2)

\* the fields of an ImpactResults and of a MitigationResult of the model
ImpactResultsFields ==
    {"mass", "energy", "craterDiameter", "craterDepth", "shockwaveRadius",
     "thermalRadius", "seismicMagnitude", "isOceanImpact", "affectedPopulation",
     "tsunamiHeight"}
MitigationResultFields ==
    {"strategy", "successProbability", "velocityChange", "trajectoryDeflection",
     "warningTimeNeeded", "energyReduction"}

\* the AsteroidData of the latest call has a parameter outside its range
MalformedData(d) ==
    \/ d.diameter <= 0 \/ d.velocity <= 0
    \/ d.angle < 0 \/ d.angle > 90
    \/ Abs(d.impactLat) > 900 \/ Abs(d.impactLon) > 1800

\* C15: calculateImpact and calculateMitigation never signal an error: on
\* malformed input they return a result record all the same, whose fields
\* are what the unvalidated arithmetic gives (negative, zero, NaN or
\* infinite).
C15_NeverSignalsError ==
    /\ results # << >> =>
         LET d == results[1].data
             r == results[1].results
         IN  /\ DOMAIN r = ImpactResultsFields
             /\ d.diameter < 0 => r.mass.sgn = -1 /\ r.shockwaveRadius.sgn \in {0, 2}
             /\ d.diameter = 0 => r.mass = Zero /\ r.energy = Zero
             /\ d.velocity = 0 => r.energy = Zero /\ r.seismicMagnitude.kind = "-inf"
             /\ (d.diameter < 0 /\ d.velocity # 0) =>
                   /\ r.energy.sgn = -1
                   /\ r.craterDiameter = NaN /\ r.affectedPopulation = NaN
                   /\ r.seismicMagnitude.kind = "nan"
             /\ (d.diameter > 0 /\ d.velocity < 0) => r.energy.sgn = 1
             /\ (d.diameter > 0 /\ d.velocity # 0 /\ d.angle < 0) => r.craterDiameter = NaN
             /\ (d.diameter > 0 /\ d.velocity # 0 /\ d.angle > 90) => r.craterDiameter.sgn = 1
    /\ (Called /\ mitigationInput.strategy # "none") =>
         /\ Returned # << >>
         /\ DOMAIN Returned[1] = MitigationResultFields
         /\ (mitigationInput.asteroidMass = Zero
                /\ mitigationInput.strategy \in {"kinetic_impactor", "nuclear_device"}) =>
               Returned[1].velocityChange = Infinity
         /\ (mitigationInput.asteroidMass = Zero /\ mitigationInput.strategy = "ion_beam") =>
               IF mitigationInput.warningTime = 0
               THEN Returned[1].velocityChange = NaN
               ELSE IsInf(Returned[1].velocityChange)
         /\ (mitigationInput.asteroidMass = Zero /\ mitigationInput.strategy = "gravity_tractor") =>
               Returned[1].velocityChange = NaN
         /\ (mitigationInput.asteroidVelocity = 0 /\ mitigationInput.strategy = "kinetic_impactor") =>
               IF mitigationInput.asteroidMass.sgn = -1
               THEN Returned[1].energyReduction = Negate(Infinity)
               ELSE Returned[1].energyReduction = NaN
         /\ (mitigationInput.asteroidMass.sgn = -1 /\ mitigationInput.strategy = "nuclear_device") =>
               Returned[1].energyReduction.sgn = -1

\* a 500 m body at -20 km/s and -30 degrees, off the globe: a result with a
\* positive energy and a NaN crater
C15_Witness ==
    /\ results # << >>
    /\ MalformedData(results[1].data)
    /\ results[1].data.diameter = 500 /\ results[1].data.velocity = -20
    /\ results[1].data.angle = -30 /\ results[1].data.impactLat = 950
    /\ results[1].results.energy.sgn = 1
    /\ results[1].results.craterDiameter = NaN
    /\ results[1].results.craterDepth = NaN

C17_RowLevelSecurity ==
    LET last == db.last
    IN  /\ last.op = "select" => last.returned = db.rows
        /\ last.op = "insert" => (last.accepted <=> last.client.role = "authenticated")
        /\ (last.op \in {"update", "delete"} /\ last.accepted) =>
              /\ last.client.role = "authenticated"
              /\ last.before[1].user_id = last.client.uid
        /\ (last.op \in {"update", "delete"} /\ last.before[1].user_id = << >>) =>
              ~last.accepted
        /\ (last.op = "update" /\ last.accepted) => last.after[1].user_id = last.client.uid

\* an authenticated user has inserted a row without user_id and then
\* failed to delete it
C17_Witness ==
    /\ Len(db.rows) = 1
    /\ db.rows[1].user_id = << >>
    /\ db.last.op = "delete"
    /\ db.last.client.role = "authenticated"
    /\ db.last.before = <<db.rows[1]>>
    /\ ~db.last.accepted

\* C16: a click on Save while results exist stores the current simulation
\* in asteroid_simulations, and the recent-simulations list, reloaded
\* afterwards, holds it.
C16_SaveStoresSimulation ==
    request # << >> =>
        /\ \E i \in 1..Len(db.rows) : db.rows[i].record = request[1].record
        /\ \E i \in 1..Len(app.recentSimulations) :
              app.recentSimulations[i].record = request[1].record

\* C18: once the recompute effect has run after a change of a parameter,
\* of the strategy or of the warning time, results is calculateImpact of
\* the current five parameters, and mitigationResults is null when
\* mitigation is 'none' and otherwise calculateMitigation of the strategy,
\* results.mass, the diameter, the velocity and the warning time.
C18_RecomputedWholesale ==
    ~app.pending =>
        /\ app.results # << >>
        /\ \E random \in Randoms :
              app.results[1] =
                  calculateImpact(Doubles(AsteroidDataOf(app)), random).results
        /\ app.mitigationResults =
              IF app.mitigation = "none" THEN << >>
              ELSE calculateMitigation(app.mitigation, app.results[1].mass,
                                       FromInt(app.diameter), FromInt(app.velocity),
                                       FromInt(app.warningTime))

\* the simulation another user stored has been loaded from the History
\* panel, the warning time then set to 10 years and the strategy to 'none'
C18_Witness ==
    /\ ~app.pending
    /\ app.simulationName = "Shared Simulation"
    /\ app.diameter = 50
    /\ app.warningTime = 10
    /\ app.mitigation = "none"
    /\ app.mitigationResults = << >>
    /\ app.results # << >>
    /\ app.results[1].mass = calculateMass(FromInt(50))

\* C19: handleSaveSimulation saves nothing while results is null; the
\* record it passes to saveSimulation otherwise holds the current name and
\* five parameters, the mass, energy, crater diameter and ocean flag of the
\* results held in state, and as mitigation_applied the strategy id, or
\* nothing when the strategy is 'none'.
C19_SavedRecord ==
    [][/\ app.results = << >> =>
            /\ request' = << >>
            /\ db' # db => db'.last.client # AnonClient
       /\ request' # << >> =>
            LET record == request'[1].record
            IN  /\ record.name = app.simulationName
                /\ record.diameter_meters = app.diameter
                /\ record.velocity_km_s = app.velocity
                /\ record.angle_degrees = app.angle
                /\ record.impact_lat = app.impactLat
                /\ record.impact_lon = app.impactLon
                /\ record.mass_kg = app.results[1].mass
                /\ record.energy_megatons = app.results[1].energy
                /\ record.crater_diameter_km = app.results[1].craterDiameter
                /\ record.is_ocean_impact = app.results[1].isOceanImpact
                /\ record.mitigation_applied =
                       IF app.mitigation = "none" THEN << >> ELSE <<app.mitigation>>]_vars

\* Save has been clicked with the Chicxulub scenario loaded and the
\* kinetic impactor chosen
C19_Witness ==
    /\ request # << >>
    /\ request[1].record.name = "Chicxulub (Dinosaur Extinction)"
    /\ request[1].record.diameter_meters = 10000
    /\ request[1].record.mitigation_applied = <<"kinetic_impactor">>
    /\ request[1].record.is_ocean_impact
    /\ request[1].record.mass_kg = app.results[1].mass

\* the kinetic impactor was asked for and has returned
KineticReturned ==
    Called /\ Returned # << >> /\ mitigationInput.strategy = "kinetic_impactor"

\* 1.5 * 500 * 10000 and the seconds of a year, as logarithms
MomentumLg == 687506
YearSecondsLg == 749910

\* C21: for the kinetic impactor velocityChange is 7.5e6 / asteroidMass,
\* trajectoryDeflection is velocityChange times the warning time in seconds
\* over 1000, energyReduction is (2r - r^2) * 100 with r the ratio of
\* velocityChange to the asteroid velocity in m/s, and the result is the
\* same for every asteroidDiameter.
C21_KineticImpactorFormulas ==
    KineticReturned =>
        LET r == Returned[1]
            mass == mitigationInput.asteroidMass
            years == FromInt(mitigationInput.warningTime)
            ratio == Div(r.velocityChange,
                         Mul(FromInt(mitigationInput.asteroidVelocity), FromInt(1000)))
        IN  /\ mass.sgn = 1 => r.velocityChange = Pos(MomentumLg - mass.lg)
            /\ r.trajectoryDeflection =
                 Div(Mul(r.velocityChange, Mul(years, Pos(YearSecondsLg))), FromInt(1000))
            /\ r.energyReduction =
                 Mul(Sub(Mul(FromInt(2), ratio), Mul(ratio, ratio)), FromInt(100))
            /\ \A d \in MitigationDiameters :
                 calculateMitigation("kinetic_impactor", mass, FromInt(d),
                                     FromInt(mitigationInput.asteroidVelocity), years) = Returned

\* a 500 kg body at 15 km/s with five years of warning: 15000 m/s of
\* velocity change, ratio 1, energy reduction 100
C21_Witness ==
    /\ KineticReturned
    /\ mitigationInput.asteroidMass = FromInt(500)
    /\ mitigationInput.asteroidVelocity = 15
    /\ mitigationInput.warningTime = 5
    /\ mitigationInput.asteroidDiameter = 500
    /\ Returned[1].velocityChange = Lit(15, 3)
    /\ Returned[1].energyReduction = FromInt(100)

\* the six land buckets in the order the claim gives, and the box of each
BucketOrder ==
    <<"north_america", "south_america", "europe", "africa", "asia", "oceania">>

InBucket(name, lat, lon) ==
    CASE name = "north_america" -> lon > -1300 /\ lon < -600 /\ lat > 150
      [] name = "south_america" -> lon > -800 /\ lon < -350 /\ lat < 150
      [] name = "europe" -> lon > -100 /\ lon < 400 /\ lat > 350
      [] name = "africa" -> lon > -200 /\ lon < 500 /\ lat < 350 /\ lat > -350
      [] name = "asia" -> lon > 400 /\ lon < 1500
      [] name = "oceania" -> lon > 1100 /\ lon < 1800 /\ lat < -100

\* the first bucket of BucketOrder that holds the point; 'ocean' when none
\* does or when the latitude is 60 degrees or more from the equator
FirstBucket(lat, lon) ==
    LET hits == {i \in 1..Len(BucketOrder) : InBucket(BucketOrder[i], lat, lon)}
    IN  IF Abs(lat) >= 600 \/ hits = {} THEN "ocean"
        ELSE BucketOrder[CHOOSE i \in hits : \A j \in hits : i <= j]

BucketDensity(name) ==
    CASE name = "north_america" -> 25
      [] name = "south_america" -> 23
      [] name = "europe" -> 73
      [] name = "africa" -> 45
      [] name = "asia" -> 150
      [] name = "oceania" -> 5
      [] name = "ocean" -> 0

\* C22: the affected population is round(density * pi * max(shockwave
\* radius, thermal radius)^2) with the density of the first matching
\* bucket in the order north_america, south_america, europe, africa, asia,
\* oceania, and of 'ocean' (0) when none matches or |lat| >= 60; so it is 0
\* wherever |lat| >= 60.
C22_PopulationByFirstBucket ==
    (results # << >> /\ ValidData) =>
        LET r == results[1].results
            radius == Max(r.shockwaveRadius, r.thermalRadius)
            density == BucketDensity(FirstBucket(data.impactLat, data.impactLon))
        IN  /\ r.affectedPopulation =
                 Round(Mul(FromInt(density), Mul(PI, Mul(radius, radius))))
            /\ Abs(data.impactLat) >= 600 => r.affectedPopulation.sgn = 0

\* a point that both asia and oceania hold is counted with asia's density
C22_Witness ==
    /\ results # << >> /\ ValidData
    /\ InBucket("asia", data.impactLat, data.impactLon)
    /\ InBucket("oceania", data.impactLat, data.impactLon)
    /\ results[1].results.affectedPopulation.sgn = 1
    /\ results[1].results.affectedPopulation =
         Round(Mul(FromInt(150), Mul(PI, PowInt(Max(results[1].results.shockwaveRadius,
                                                    results[1].results.thermalRadius), 2))))

(***************************************************************************)
(* The NASA service: one call of fetchNearEarthAsteroids or of             *)
(* fetchAsteroidById.  nasa.network is what the request meets, nasa.payload*)
(* the objects of the response body (all dates of the feed in the order    *)
(* the loops visit them), nasa.asteroids the local array of the call,      *)
(* nasa.settled the promise: << >> while pending, then <<[state, value]>>. *)
(* The value of a by-id call is << >> for null or <<asteroid>>.            *)
(* Velocities are in hundredths of a km/s; << >> stands for NaN.           *)
(***************************************************************************)
MaxNeos == 2
Networks == {"throws", "not_ok", "bad_json", "ok"}
NeoShapes == {"complete", "no_diameter", "no_approach", "no_velocity"}
NeoId(i) == <<"n1", "n2", "n3">>[i]

\* the object of the given shape at place i of the body
Neo(shape, i) ==
    [id |-> NeoId(i),
     estimated_diameter |->
         IF shape = "no_diameter" THEN << >>
         ELSE <<[estimated_diameter_min |-> 300, estimated_diameter_max |-> 350]>>,
     close_approach_data |->
         IF shape = "no_approach" THEN << >>
         ELSE <<[kilometers_per_second |->
                    IF shape = "no_velocity" THEN << >> ELSE <<742>>]>>]

Payloads ==
    UNION {{[i \in 1..n |-> Neo(shapes[i], i)] : shapes \in [1..n -> NeoShapes]} :
           n \in 0..MaxNeos}

\* reading a property of undefined throws a TypeError
Throws(neo) == neo.estimated_diameter = << >> \/ neo.close_approach_data = << >>

\* the NASAAsteroid built from an object that does not throw; parseFloat
\* of a missing velocity is NaN
ParseNeo(neo) ==
    LET diameterData == neo.estimated_diameter[1]
        closeApproach == neo.close_approach_data[1]
    IN  [id |-> neo.id,
         average |-> (diameterData.estimated_diameter_min
                        + diameterData.estimated_diameter_max) \div 2,
         velocity |-> closeApproach.kilometers_per_second]

getMockAsteroids ==
    <<[id |-> "2099942", average |-> 325, velocity |-> <<742>>],
      [id |-> "2101955", average |-> 491, velocity |-> <<630>>],
      [id |-> "433", average |-> 16900, velocity |-> <<2350>>],
      [id |-> "99942", average |-> 245, velocity |-> <<1260>>],
      [id |-> "162173", average |-> 910, velocity |-> <<890>>]>>

Fulfilled(value) == <<[state |-> "fulfilled", value |-> value]>>

InitNasa ==
    /\ data = DefaultData
    /\ results = << >>
    /\ previous = << >>
    /\ mitigationInput = DefaultMitigationInput
    /\ mitigationResults = << >>
    /\ tsunami = NoTsunamiCall
    /\ calls = << >>
    /\ db = EmptyDb
    /\ app = InitialApp
    /\ request = << >>
    /\ joules = NoJoules
    /\ loads = NoLoads
    /\ orbit = NoOrbit
    /\ map = NoMap
    /\ \/ nasa \in [call : {"list"}, network : Networks, payload : Payloads,
                    pc : {"fetch"}, asteroids : {<< >>}, settled : {<< >>}]
       \/ nasa \in [call : {"by_id"}, network : Networks,
                    payload : {p \in Payloads : Len(p) = 1},
                    pc : {"fetch"}, asteroids : {<< >>}, settled : {<< >>}]

\* the catch block of fetchNearEarthAsteroids
CatchFeed == nasa' = [nasa EXCEPT !.pc = "done", !.settled = Fulfilled(getMockAsteroids)]

\* the catch block of fetchAsteroidById
CatchNeo == nasa' = [nasa EXCEPT !.pc = "done", !.settled = Fulfilled(<< >>)]

\* await fetch(url) and the test of response.ok
FetchFeed ==
    /\ nasa.call = "list" /\ nasa.pc = "fetch"
    /\ IF nasa.network \in {"throws", "not_ok"}
       THEN CatchFeed
       ELSE nasa' = [nasa EXCEPT !.pc = "json"]
    /\ UNCHANGED <<callerVars, tsunami, calls, db, appVars, joules, loads, orbit, map>>

\* await response.json()
ReadFeed ==
    /\ nasa.call = "list" /\ nasa.pc = "json"
    /\ IF nasa.network = "bad_json"
       THEN CatchFeed
       ELSE nasa' = [nasa EXCEPT !.pc = "parse", !.asteroids = << >>]
    /\ UNCHANGED <<callerVars, tsunami, calls, db, appVars, joules, loads, orbit, map>>

\* Mutant of PushNeo: the catch block returns what was parsed so far.
PushNeo_ReturnsParsed ==
    /\ nasa.call = "list" /\ nasa.pc = "parse"
    /\ Len(nasa.asteroids) < Len(nasa.payload)
    /\ LET neo == nasa.payload[Len(nasa.asteroids) + 1]
       IN  IF Throws(neo)
           THEN nasa' = [nasa EXCEPT !.pc = "done", !.settled = Fulfilled(nasa.asteroids)]
           ELSE nasa' = [nasa EXCEPT !.asteroids = Append(@, ParseNeo(neo))]
    /\ UNCHANGED <<callerVars, tsunami, calls, db, appVars, joules, loads, orbit, map>>

\* one turn of the loops over the objects of the body
PushNeo ==
    /\ nasa.call = "list" /\ nasa.pc = "parse"
    /\ Len(nasa.asteroids) < Len(nasa.payload)
    /\ LET neo == nasa.payload[Len(nasa.asteroids) + 1]
       IN  IF Throws(neo)
           THEN CatchFeed
           ELSE nasa' = [nasa EXCEPT !.asteroids = Append(@, ParseNeo(neo))]
    /\ UNCHANGED <<callerVars, tsunami, calls, db, appVars, joules, loads, orbit, map>>

\* return asteroids
ReturnAsteroids ==
    /\ nasa.call = "list" /\ nasa.pc = "parse"
    /\ Len(nasa.asteroids) = Len(nasa.payload)
    /\ nasa' = [nasa EXCEPT !.pc = "done", !.settled = Fulfilled(nasa.asteroids)]
    /\ UNCHANGED <<callerVars, tsunami, calls, db, appVars, joules, loads, orbit, map>>

\* fetchAsteroidById: await fetch(url) and the test of response.ok
FetchNeo ==
    /\ nasa.call = "by_id" /\ nasa.pc = "fetch"
    /\ IF nasa.network \in {"throws", "not_ok"}
       THEN CatchNeo
       ELSE nasa' = [nasa EXCEPT !.pc = "json"]
    /\ UNCHANGED <<callerVars, tsunami, calls, db, appVars, joules, loads, orbit, map>>

\* fetchAsteroidById: await response.json(), then the object is built and
\* returned
ReadNeo ==
    /\ nasa.call = "by_id" /\ nasa.pc = "json"
    /\ IF nasa.network = "bad_json" \/ Throws(nasa.payload[1])
       THEN CatchNeo
       ELSE nasa' = [nasa EXCEPT !.pc = "done",
                                 !.settled = Fulfilled(<<ParseNeo(nasa.payload[1])>>)]
    /\ UNCHANGED <<callerVars, tsunami, calls, db, appVars, joules, loads, orbit, map>>

NextNasa ==
    \/ FetchFeed
    \/ ReadFeed
    \/ PushNeo
    \/ ReturnAsteroids
    \/ FetchNeo
    \/ ReadNeo

SpecNasa == InitNasa /\ [][NextNasa]_vars

\* the request throws, the response is not ok, or an object does not parse
FetchFails ==
    \/ nasa.network # "ok"
    \/ \E i \in 1..Len(nasa.payload) : Throws(nasa.payload[i])

\* C23: fetchNearEarthAsteroids never rejects, and when the request throws,
\* the response is not ok or an object of the body fails to parse it
\* resolves to the five mock asteroids, never to a partly parsed list;
\* fetchAsteroidById resolves to null in these situations.
C23_FetchFallsBack ==
    nasa.settled # << >> =>
        /\ nasa.settled[1].state = "fulfilled"
        /\ (nasa.call = "list" /\ FetchFails) =>
              /\ nasa.settled[1].value = getMockAsteroids
              /\ Len(nasa.settled[1].value) = 5
        /\ (nasa.call = "by_id" /\ FetchFails) => nasa.settled[1].value = << >>

\* the second object of the body throws after the first was pushed: the
\* promise holds the mock list and not the one parsed asteroid
C23_Witness ==
    /\ nasa.call = "list" /\ nasa.network = "ok"
    /\ Len(nasa.payload) = 2
    /\ ~Throws(nasa.payload[1]) /\ Throws(nasa.payload[2])
    /\ Len(nasa.asteroids) = 1
    /\ nasa.settled = Fulfilled(getMockAsteroids)

(***************************************************************************)
(* The energy conversions in IEEE 754 binary64.  A positive normal double  *)
(* is [m, e]: m its 53 significand bits, first bit first, and the value is *)
(* m * 2^e.  The constants of the conversions have short significands     *)
(* (4.184e9 = 8171875 * 2^9, 1000 = 125 * 2^3, 1e6 = 15625 * 2^6), so a    *)
(* product and a quotient are computed byte by byte with an integer carry  *)
(* and remainder, then rounded to nearest, ties to even, as the hardware   *)
(* does.                                                                   *)
(***************************************************************************)
\* the binary digits of the natural number n below 2^30, none for 0
NatBits(n) ==
    LET len == CHOOSE l \in 0..30 : n < 2^l /\ (l = 0 \/ n >= 2^(l - 1))
    IN  [i \in 1..len |-> (n \div 2^(len - i)) % 2]

\* bits + 1; a carry out of the first bit lengthens the sequence
Increment(bits) ==
    LET zeros == {i \in 1..Len(bits) : bits[i] = 0}
    IN  IF zeros = {} THEN <<1>> \o [i \in 1..Len(bits) |-> 0]
        ELSE LET k == CHOOSE i \in zeros : \A j \in zeros : j <= i
             IN  [i \in 1..Len(bits) |-> IF i < k THEN bits[i] ELSE IF i = k THEN 1 ELSE 0]

\* bits - 1, for bits above 0, at the same length
Decrement(bits) ==
    LET ones == {i \in 1..Len(bits) : bits[i] = 1}
        k == CHOOSE i \in ones : \A j \in ones : j <= i
    IN  [i \in 1..Len(bits) |-> IF i < k THEN bits[i] ELSE IF i = k THEN 0 ELSE 1]

StripZeros(bits) ==
    LET ones == {i \in 1..Len(bits) : bits[i] = 1}
    IN  IF ones = {} THEN << >>
        ELSE SubSeq(bits, CHOOSE i \in ones : \A j \in ones : i <= j, Len(bits))

Zeros(n) == [i \in 1..n |-> 0]

\* The double nearest to bits * 2^e, bits an integer above 0 without
\* leading zeros; sticky tells that the exact value lies above it.
RoundToDouble(bits, e, sticky) ==
    IF Len(bits) <= 53
    THEN [m |-> bits \o Zeros(53 - Len(bits)), e |-> e - (53 - Len(bits))]
    ELSE LET kept == SubSeq(bits, 1, 53)
             guard == bits[54]
             rest == sticky \/ \E i \in 55..Len(bits) : bits[i] = 1
             up == guard = 1 /\ (rest \/ kept[53] = 1)
             rounded == IF up THEN Increment(kept) ELSE kept
             shift == Len(bits) - 53
         IN  IF Len(rounded) = 54
             THEN [m |-> SubSeq(rounded, 1, 53), e |-> e + shift + 1]
             ELSE [m |-> rounded, e |-> e + shift]

\* Bits in groups of eight, so that a group times a constant below 2^23
\* stays below 2^31.
ToBytes(bits) ==
    LET padded == Zeros((8 - (Len(bits) % 8)) % 8) \o bits
    IN  [j \in 1..(Len(padded) \div 8) |->
            padded[8 * j - 7] * 128 + padded[8 * j - 6] * 64 + padded[8 * j - 5] * 32
          + padded[8 * j - 4] * 16 + padded[8 * j - 3] * 8 + padded[8 * j - 2] * 4
          + padded[8 * j - 1] * 2 + padded[8 * j]]

FromBytes(bytes) ==
    StripZeros([i \in 1..(8 * Len(bytes)) |->
                   (bytes[((i - 1) \div 8) + 1] \div 2^(7 - ((i - 1) % 8))) % 2])

RECURSIVE TimesBytes(_, _, _)
\* bytes * c + carry, last byte first
TimesBytes(bytes, c, carry) ==
    IF bytes = << >>
    THEN <<carry \div 65536, (carry \div 256) % 256, carry % 256>>
    ELSE LET t == bytes[Len(bytes)] * c + carry
         IN  Append(TimesBytes(SubSeq(bytes, 1, Len(bytes) - 1), c, t \div 256), t % 256)

\* bits * c
TimesBits(bits, c) == FromBytes(TimesBytes(ToBytes(bits), c, 0))

RECURSIVE DivideBytes(_, _, _, _)
\* long division of bytes by d: r is the remainder and q the quotient of
\* the bytes already read
DivideBytes(bytes, d, r, q) ==
    IF bytes = << >> THEN [q |-> FromBytes(q), r |-> r]
    ELSE LET t == 256 * r + bytes[1]
         IN  DivideBytes(Tail(bytes), d, t % d, Append(q, t \div d))

\* quotient and remainder of bits by d
DivideBits(bits, d) == DivideBytes(ToBytes(bits), d, 0, << >>)

\* the double of the natural number n, n above 0
DoubleOfNat(n) == RoundToDouble(NatBits(n), 0, FALSE)

\* x * (c * 2^s) rounded, for c below 2^23
TimesConstant(x, c, s) == RoundToDouble(TimesBits(x.m, c), x.e + s, FALSE)

\* x / (d * 2^s) rounded, for d below 2^23
OverConstant(x, d, s) ==
    LET qr == DivideBits(x.m \o Zeros(27), d)
    IN  RoundToDouble(qr.q, x.e - 27 - s, qr.r # 0)

\* the doubles next above and next below x
NextUp(x) ==
    LET up == Increment(x.m)
    IN  IF Len(up) = 54 THEN [m |-> SubSeq(up, 1, 53), e |-> x.e + 1]
        ELSE [m |-> up, e |-> x.e]

NextDown(x) ==
    IF \A i \in 2..53 : x.m[i] = 0
    THEN [m |-> [i \in 1..53 |-> 1], e |-> x.e - 1]
    ELSE [m |-> Decrement(x.m), e |-> x.e]

RECURSIVE WithinUlps(_, _)
\* the doubles at most k places of the last digit away from x
WithinUlps(x, k) ==
    IF k = 0 THEN {x}
    ELSE LET near == WithinUlps(x, k - 1)
         IN  near \cup {NextUp(z) : z \in near} \cup {NextDown(z) : z \in near}

\* 0.5 * mass * Math.pow(velocity * 1000, 2) for a whole mass and velocity:
\* every step is exact below 2^53
KineticEnergy(mass, velocity) ==
    LET velocityMs == velocity * 1000
    IN  (mass * (velocityMs * velocityMs)) \div 2

\* Mutant of calculateEnergyBinary64: the kilotons are returned.
calculateEnergyBinary64_Kilotons(mass, velocity) ==
    LET energyJoules == DoubleOfNat(KineticEnergy(mass, velocity))
        energyKilotons == OverConstant(energyJoules, 8171875, 9)
    IN  energyKilotons

\* calculateEnergy on doubles
calculateEnergyBinary64(mass, velocity) ==
    LET energyJoules == DoubleOfNat(KineticEnergy(mass, velocity))
        energyKilotons == OverConstant(energyJoules, 8171875, 9)
        energyMegatons == OverConstant(energyKilotons, 125, 3)
    IN  energyMegatons

\* energy * 1e6 * TNT_ENERGY, the first line of calculateCraterDiameter and
\* of calculateSeismicMagnitude
EnergyJoulesOf(energy) == TimesConstant(TimesConstant(energy, 15625, 6), 8171875, 9)

EnergyMasses == 1..10
EnergyVelocities == 1..10

InitEnergy ==
    /\ data = DefaultData
    /\ results = << >>
    /\ previous = << >>
    /\ mitigationInput = DefaultMitigationInput
    /\ mitigationResults = << >>
    /\ tsunami = NoTsunamiCall
    /\ calls = << >>
    /\ db = EmptyDb
    /\ app = InitialApp
    /\ request = << >>
    /\ nasa = NoFetch
    /\ joules \in [mass : EnergyMasses, velocity : EnergyVelocities,
                   energy : {<< >>}, energyJoules : {<< >>}]
    /\ loads = NoLoads
    /\ orbit = NoOrbit
    /\ map = NoMap

\* calculateEnergy(mass, velocity)
CalculateEnergy ==
    /\ joules.energy = << >>
    /\ \E energy \in {calculateEnergyBinary64(joules.mass, joules.velocity)} :
          joules' = [joules EXCEPT !.energy = <<energy>>]
    /\ UNCHANGED <<callerVars, tsunami, calls, db, appVars, nasa, loads, orbit, map>>

\* the crater and the seismic calculators rebuild the joules
RebuildJoules ==
    /\ joules.energy # << >> /\ joules.energyJoules = << >>
    /\ \E j \in {EnergyJoulesOf(joules.energy[1])} :
          joules' = [joules EXCEPT !.energyJoules = <<j>>]
    /\ UNCHANGED <<callerVars, tsunami, calls, db, appVars, nasa, loads, orbit, map>>

NextEnergy == CalculateEnergy \/ RebuildJoules

SpecEnergy == InitEnergy /\ [][NextEnergy]_vars

\* 1000 times the kinetic energy, a double without rounding
ThousandfoldKinetic ==
    TimesConstant(DoubleOfNat(KineticEnergy(joules.mass, joules.velocity)), 125, 3)

\* C24 as stated: the rebuilt joule value is exactly 1000 times the kinetic
\* energy, for every mass and velocity.
C24_Original ==
    joules.energyJoules # << >> => joules.energyJoules[1] = ThousandfoldKinetic

\* C24: the joule value rebuilt from the megaton figure is 1000 times the
\* kinetic energy up to the rounding of the four operations in between: at
\* most four places of the last digit away.
C24_ThousandfoldUpToRounding ==
    joules.energyJoules # << >> =>
        joules.energyJoules[1] \in WithinUlps(ThousandfoldKinetic, 4)

\* 1 kg at 1 km/s: 500000 J; the rebuilt figure is the double just below
\* 5e8
C24_Witness ==
    /\ joules.mass = 1 /\ joules.velocity = 1
    /\ joules.energyJoules # << >>
    /\ joules.energyJoules[1] = NextDown(ThousandfoldKinetic)

\* the App shows results for its default coordinates, 40.7 and -74.0
AtDefaultCoordinates ==
    app.results # << >> /\ app.impactLat = 407 /\ app.impactLon = -740

\* C25: at the App's default coordinates every call of calculateImpact
\* returns an ocean impact with a tsunamiHeight and a crater of 0.8 times
\* the land crater, and with it an affectedPopulation computed with the
\* north_america density of 25, which is not zero for the default 500 m,
\* 20 km/s asteroid.
C25_OceanFlagAndBucketDisagree ==
    AtDefaultCoordinates =>
        LET r == app.results[1]
            land == calculateCraterDiameter(r.energy, FromInt(app.velocity),
                                            app.angle, FALSE)
            radius == Max(r.shockwaveRadius, r.thermalRadius)
        IN  /\ r.isOceanImpact
            /\ r.tsunamiHeight # << >>
            /\ r.craterDiameter = Mul(Lit(8, -1), land)
            /\ r.affectedPopulation = Round(Mul(FromInt(25), Mul(PI, Mul(radius, radius))))
            /\ (app.diameter = 500 /\ app.velocity = 20) => r.affectedPopulation.sgn = 1

\* the default asteroid at the default coordinates: an ocean impact with
\* a tsunami and people affected
C25_Witness ==
    /\ AtDefaultCoordinates
    /\ app.diameter = 500 /\ app.velocity = 20 /\ app.angle = 45
    /\ app.results[1].isOceanImpact
    /\ app.results[1].tsunamiHeight # << >>
    /\ Less(FromInt(1000), app.results[1].affectedPopulation)

\* the step sets the six values of the record sim, closes the history
\* panel, takes the strategy from the record's label if it has one and
\* keeps it otherwise, and keeps warningTime and the list
LoadedFrom(sim) ==
    /\ app'.diameter = sim.diameter_meters
    /\ app'.velocity = sim.velocity_km_s
    /\ app'.angle = sim.angle_degrees
    /\ app'.impactLat = sim.impact_lat
    /\ app'.impactLon = sim.impact_lon
    /\ app'.simulationName = sim.name
    /\ ~app'.showHistory
    /\ app'.mitigation =
         IF sim.mitigation_applied # << >> THEN sim.mitigation_applied[1] ELSE app.mitigation
    /\ app'.warningTime = app.warningTime
    /\ app'.recentSimulations = app.recentSimulations

\* the step only closed the history panel (the History button)
OnlyClosed == app' = [app EXCEPT !.showHistory = FALSE, !.alert = << >>]

\* C26: a step that closes the history panel is the History button or
\* handleLoadSimulation, and the latter sets diameter, velocity, angle,
\* impactLat, impactLon and simulationName from the record, changes
\* mitigation only when the record carries a label, and never changes
\* warningTime.
C26_LoadSimulationFrame ==
    [][(app.showHistory /\ ~app'.showHistory) =>
          \/ OnlyClosed
          \/ \E i \in 1..Len(app.recentSimulations) :
                LoadedFrom(app.recentSimulations[i].record)]_vars

\* a record saved without a label has been loaded while the kinetic
\* impactor was selected: the record's diameter is set, the strategy stays
C26_Witness ==
    /\ app.simulationName = "Shared Simulation"
    /\ app.diameter = 50
    /\ app.mitigation = "kinetic_impactor"
    /\ ~app.showHistory
    /\ \A i \in 1..Len(app.recentSimulations) :
          app.recentSimulations[i].record.mitigation_applied = << >>
    /\ app.recentSimulations # << >>

(***************************************************************************)
(* The App's requests to the table, one await at a time.  loads.client is  *)
(* the session the supabase client works with: the anon key alone, or a    *)
(* signed-in user's session it found in the browser's storage (the App     *)
(* itself never signs in).  loads.saves are the Save clicks and            *)
(* loads.calls the calls of loadRecentSimulations, each in the order       *)
(* issued.  A request is "sent" until the database runs it, and its        *)
(* promise resolves some time after that.                                  *)
(***************************************************************************)
MaxClicks == 2

\* the App after its first render and recompute effect, before the mount
\* effect
RenderedApp ==
    [InitialApp EXCEPT !.pending = FALSE,
                       !.results = <<calculateImpact(Doubles(DefaultData), 70).results>>]

InitLoads ==
    /\ data = DefaultData
    /\ results = << >>
    /\ previous = << >>
    /\ mitigationInput = DefaultMitigationInput
    /\ mitigationResults = << >>
    /\ tsunami = NoTsunamiCall
    /\ calls = << >>
    /\ db = EmptyDb
    /\ \E rendered \in {RenderedApp} : app = rendered
    /\ request = << >>
    /\ nasa = NoFetch
    /\ joules = NoJoules
    /\ loads \in [client : Clients, saves : {<< >>}, calls : {<< >>}]
    /\ orbit = NoOrbit
    /\ map = NoMap

\* loadRecentSimulations(5) is called: the request leaves
IssueLoad(l, origin) ==
    [l EXCEPT !.calls = Append(@, [origin |-> origin, state |-> "sent", data |-> << >>])]

\* the mount effect: loadRecentSimulations(5).then(...)
MountLoad ==
    /\ ~app.mounted
    /\ app' = [app EXCEPT !.mounted = TRUE]
    /\ loads' = IssueLoad(loads, "mount")
    /\ UNCHANGED <<callerVars, tsunami, calls, db, request, nasa, joules, orbit, map>>

\* handleSaveSimulation up to await saveSimulation(record)
ClickSave ==
    /\ app.results # << >>
    /\ Len(loads.saves) < MaxClicks
    /\ loads' = [loads EXCEPT !.saves = Append(@, [state |-> "sent"])]
    /\ UNCHANGED <<callerVars, tsunami, calls, db, appVars, nasa, joules, orbit, map>>

\* the database runs the insert of Save click k; the record is the one
\* the handler builds from the App's initial parameters
InsertRuns(k) ==
    /\ k \in 1..Len(loads.saves)
    /\ loads.saves[k].state = "sent"
    /\ \E saved \in {DbInsert(db, loads.client, SampleRecord, << >>)} :
          /\ db' = saved
          /\ loads' = [loads EXCEPT !.saves[k].state =
                          IF saved.last.accepted THEN "stored" ELSE "refused"]
    /\ UNCHANGED <<callerVars, tsunami, calls, appVars, nasa, joules, orbit, map>>

\* await saveSimulation(record) returns or throws in Save click k; after
\* the alert the handler calls loadRecentSimulations(5)
SaveResumes(k) ==
    /\ k \in 1..Len(loads.saves)
    /\ loads.saves[k].state \in {"stored", "refused"}
    /\ IF loads.saves[k].state = "stored"
       THEN /\ app' = [app EXCEPT !.alert = <<"Simulation saved successfully!">>]
            /\ loads' = IssueLoad([loads EXCEPT !.saves[k].state = "done"], "save")
       ELSE /\ app' = [app EXCEPT !.alert = <<"Error saving simulation">>]
            /\ loads' = [loads EXCEPT !.saves[k].state = "done"]
    /\ UNCHANGED <<callerVars, tsunami, calls, db, request, nasa, joules, orbit, map>>

\* the database runs the select of call j
SelectRuns(j) ==
    /\ j \in 1..Len(loads.calls)
    /\ loads.calls[j].state = "sent"
    /\ loads' = [loads EXCEPT !.calls[j] =
                    [@ EXCEPT !.state = "run",
                              !.data = DbSelectRecent(db, loads.client, RecentLimit)]]
    /\ UNCHANGED <<callerVars, tsunami, calls, db, appVars, nasa, joules, orbit, map>>

\* the promise of call j resolves: setRecentSimulations(data)
LoadResumes(j) ==
    /\ j \in 1..Len(loads.calls)
    /\ loads.calls[j].state = "run"
    /\ app' = [app EXCEPT !.recentSimulations = loads.calls[j].data]
    /\ loads' = [loads EXCEPT !.calls[j].state = "done"]
    /\ UNCHANGED <<callerVars, tsunami, calls, db, request, nasa, joules, orbit, map>>

NextLoads ==
    \/ MountLoad
    \/ ClickSave
    \/ \E k \in 1..MaxClicks : InsertRuns(k)
    \/ \E k \in 1..MaxClicks : SaveResumes(k)
    \/ \E j \in 1..(MaxClicks + 1) : SelectRuns(j)
    \/ \E j \in 1..(MaxClicks + 1) : LoadResumes(j)

SpecLoads == InitLoads /\ [][NextLoads]_vars

\* no request of the App is under way
LoadsSettled ==
    /\ \A k \in 1..Len(loads.saves) : loads.saves[k].state = "done"
    /\ \A j \in 1..Len(loads.calls) : loads.calls[j].state = "done"

OrbitDiameters == {50, 500}
OrbitProps ==
    [asteroidDiameter : OrbitDiameters, velocity : {20}, angle : {45},
     impactLat : {407}, impactLon : {-740}, mitigationApplied : BOOLEAN]

\* trajectoryPoints: i runs from 0 to 100
trajectoryPoints(props) ==
    [i \in 0..100 |->
        [i |-> i, angle |-> props.angle, impactLat |-> props.impactLat,
         impactLon |-> props.impactLon, deflected |-> FALSE]]

\* mitigatedPoints: clones while t = i / 100 is below 0.5, rotated points
\* from there on
mitigatedPoints(props) ==
    [i \in 0..100 |->
        IF 2 * i < 100
        THEN trajectoryPoints(props)[i]
        ELSE [trajectoryPoints(props)[i] EXCEPT !.deflected = TRUE]]

\* what requestAnimationFrame returns: a handle no pending callback has
\* and that sceneRef does not hold
NewFrameId(o) ==
    CHOOSE n \in 1..(Cardinality(o.pending) + 2) :
        /\ n # o.animationId
        /\ \A f \in o.pending : f.id # n
        /\ \A m \in 1..(n - 1) : m = o.animationId \/ \E f \in o.pending : f.id = m

\* cancelAnimationFrame(sceneRef.current.animationId), if it is set
CancelFrame(o) ==
    IF o.animationId # 0
    THEN [o EXCEPT !.pending = {f \in @ : f.id # o.animationId}]
    ELSE o

\* Mutant of animate: the asteroid always reads trajectoryPoints.
animate_AlwaysOriginal(o, animationProgress, props) ==
    LET advanced == animationProgress + 3
        progress == IF advanced > 1000 THEN 0 ELSE advanced
        currentIndex == (progress * 101) \div 1000
        id == NewFrameId(o)
    IN  [o EXCEPT
            !.asteroid =
                IF currentIndex < 101
                THEN <<[from |-> "array", index |-> currentIndex,
                        point |-> trajectoryPoints(props)[currentIndex]]>>
                ELSE @,
            !.pending = @ \cup {[id |-> id, animationProgress |-> progress,
                                 props |-> props]},
            !.animationId = id]

\* One call of the closure animate whose variables are animationProgress
\* and the props of its effect run: the next state of the component.
animate(o, animationProgress, props) ==
    LET advanced == animationProgress + 3
        progress == IF advanced > 1000 THEN 0 ELSE advanced
        currentIndex == (progress * 101) \div 1000
        id == NewFrameId(o)
    IN  [o EXCEPT
            !.asteroid =
                IF currentIndex < 101
                THEN IF props.mitigationApplied /\ o.mitigatedTrajectory # << >>
                     THEN <<[from |-> "buffer", index |-> currentIndex,
                             point |-> mitigatedPoints(o.mitigatedTrajectory[1])[currentIndex]]>>
                     ELSE <<[from |-> "array", index |-> currentIndex,
                             point |-> trajectoryPoints(props)[currentIndex]]>>
                ELSE @,
            !.pending = @ \cup {[id |-> id, animationProgress |-> progress,
                                 props |-> props]},
            !.animationId = id]

\* the body of the trajectory effect for the props of the render: the
\* objects are rebuilt (the mitigated line only when mitigationApplied,
\* else sceneRef keeps the one it had), then animate() is called
TrajectoryEffect(o, props) ==
    animate([o EXCEPT !.props = <<props>>,
                      !.mitigatedTrajectory = IF props.mitigationApplied THEN <<props>> ELSE @,
                      !.asteroid = << >>],
            0, props)

InitOrbit ==
    /\ data = DefaultData
    /\ results = << >>
    /\ previous = << >>
    /\ mitigationInput = DefaultMitigationInput
    /\ mitigationResults = << >>
    /\ tsunami = NoTsunamiCall
    /\ calls = << >>
    /\ db = EmptyDb
    /\ app = InitialApp
    /\ request = << >>
    /\ nasa = NoFetch
    /\ joules = NoJoules
    /\ loads = NoLoads
    /\ orbit = NoOrbit
    /\ map = NoMap

\* first render: the mount effect builds the scene, then the trajectory
\* effect runs
MountOrbit(props) ==
    /\ ~orbit.mounted /\ ~orbit.unmounted
    /\ orbit' = TrajectoryEffect([orbit EXCEPT !.mounted = TRUE], props)
    /\ UNCHANGED <<callerVars, tsunami, calls, db, appVars, nasa, joules, loads, map>>

\* the browser runs the pending callback frame
AnimationFrame(frame) ==
    /\ frame \in orbit.pending
    /\ orbit' = animate([orbit EXCEPT !.pending = @ \ {frame}],
                        frame.animationProgress, frame.props)
    /\ UNCHANGED <<callerVars, tsunami, calls, db, appVars, nasa, joules, loads, map>>

\* Mutant of Rerender: the cleanup of the trajectory effect cancels
\* nothing.
Rerender_NoCancel(props) ==
    /\ orbit.mounted
    /\ orbit.props # <<props>>
    /\ orbit' = TrajectoryEffect(orbit, props)
    /\ UNCHANGED <<callerVars, tsunami, calls, db, appVars, nasa, joules, loads, map>>

\* a render with a changed dependency: the cleanup of the trajectory
\* effect, then its body
Rerender(props) ==
    /\ orbit.mounted
    /\ orbit.props # <<props>>
    /\ orbit' = TrajectoryEffect(CancelFrame(orbit), props)
    /\ UNCHANGED <<callerVars, tsunami, calls, db, appVars, nasa, joules, loads, map>>

\* unmount: the cleanups of the two effects, each cancelling
\* sceneRef.current.animationId
UnmountOrbit ==
    /\ orbit.mounted
    /\ orbit' = [CancelFrame(CancelFrame(orbit)) EXCEPT !.mounted = FALSE,
                                                        !.unmounted = TRUE]
    /\ UNCHANGED <<callerVars, tsunami, calls, db, appVars, nasa, joules, loads, map>>

NextOrbit ==
    \/ \E props \in OrbitProps : MountOrbit(props)
    \/ \E frame \in orbit.pending : AnimationFrame(frame)
    \/ \E props \in OrbitProps : Rerender(props)
    \/ UnmountOrbit

SpecOrbit == InitOrbit /\ [][NextOrbit]_vars

\* C28: at most one animation frame is pending at any time; the pending
\* frame belongs to the loop of the latest run of the trajectory effect
\* (a re-run has cancelled the frame of the loop before it); after unmount
\* no frame is pending.
C28_OneFramePending ==
    /\ Cardinality(orbit.pending) <= 1
    /\ \A f \in orbit.pending : <<f.props>> = orbit.props /\ f.id = orbit.animationId
    /\ orbit.unmounted => orbit.pending = {}

\* unmounted after a re-run that changed mitigationApplied to false (the
\* mitigated line of the earlier run is still in sceneRef), with frames
\* having run: nothing is pending
C28_Witness ==
    /\ orbit.unmounted
    /\ orbit.pending = {}
    /\ orbit.animationId # 0
    /\ orbit.props # << >> /\ ~orbit.props[1].mitigationApplied
    /\ orbit.mitigatedTrajectory # << >>
    /\ orbit.asteroid # << >> /\ orbit.asteroid[1].index = 100

\* C29: animationProgress stays in [0, 1]; the index a position is read at
\* is within 0..100, the points of either line; points 0..49 of the
\* mitigated line are those of the original one; and the asteroid reads
\* the mitigated points exactly when mitigationApplied is true.
C29_ProgressAndIndexInRange ==
    /\ \A f \in orbit.pending : f.animationProgress >= 0 /\ f.animationProgress <= 1000
    /\ orbit.asteroid # << >> =>
          LET at == orbit.asteroid[1]
              props == orbit.props[1]
          IN  /\ at.index \in 0..100
              /\ at.index \in DOMAIN trajectoryPoints(props)
              /\ at.index \in DOMAIN mitigatedPoints(props)
              /\ at.index <= 49 => at.point = trajectoryPoints(props)[at.index]
              /\ (at.from = "buffer") = props.mitigationApplied
              /\ at.point = IF props.mitigationApplied
                            THEN mitigatedPoints(props)[at.index]
                            ELSE trajectoryPoints(props)[at.index]
    /\ orbit.props # << >> =>
          \A i \in 0..49 : mitigatedPoints(orbit.props[1])[i] = trajectoryPoints(orbit.props[1])[i]

\* with mitigation applied the asteroid is at the last, deflected point,
\* just before the progress wraps
C29_Witness ==
    /\ orbit.asteroid # << >>
    /\ orbit.props[1].mitigationApplied
    /\ orbit.asteroid[1].index = 100
    /\ orbit.asteroid[1].point.deflected
    /\ \E f \in orbit.pending : f.animationProgress = 999

(***************************************************************************)
(* ImpactMap.  map.created counts the calls of L.map, map.layers are the   *)
(* layers the Leaflet map holds, each with an identity, map.markers the    *)
(* four fields of markersRef.current (the identity of a layer, 0 when      *)
(* undefined), map.view the centre last set.  Coordinates are in tenths of *)
(* a degree, radii in km.                                                  *)
(***************************************************************************)
MapPlaces == {<<407, -740>>, <<0, 0>>, <<213, -895>>}
MapProps ==
    [place : MapPlaces, shockwaveRadius : {10, 20}, thermalRadius : {15},
     craterDiameter : {2, 4}, isOceanImpact : BOOLEAN]

LayerKinds == {"impact", "crater", "shockwave", "thermal"}

\* the identity of a new layer object: one that no layer on the map and
\* no field of markersRef has
NewLayer(m) ==
    CHOOSE n \in 1..9 :
        LET used == {l.id : l \in m.layers} \cup {m.markers[k] : k \in LayerKinds}
        IN  n \notin used /\ \A k \in 1..(n - 1) : k \in used

\* markersRef.current[kind].remove(), if the field is set
RemoveLayer(m, kind) ==
    IF m.markers[kind] # 0
    THEN [m EXCEPT !.layers = {l \in @ : l.id # m.markers[kind]}]
    ELSE m

\* markersRef.current[kind] = L.marker / L.circle (...).addTo(map)
AddLayer(m, kind, props, radius) ==
    LET id == NewLayer(m)
    IN  [m EXCEPT !.layers = @ \cup {[id |-> id, kind |-> kind, centre |-> props.place,
                                      radius |-> radius]},
                  !.markers[kind] = id]

\* Mutant of MarkerEffect: the old crater circle is not removed.
MarkerEffect_KeepsCrater(m, props) ==
    LET cleared == RemoveLayer(RemoveLayer(RemoveLayer(m, "impact"), "shockwave"), "thermal")
        impact == AddLayer(cleared, "impact", props, 0)
        crater == AddLayer(impact, "crater", props, props.craterDiameter * 500)
        shockwave == AddLayer(crater, "shockwave", props, props.shockwaveRadius * 1000)
        thermal == AddLayer(shockwave, "thermal", props, props.thermalRadius * 1000)
    IN  [thermal EXCEPT !.view = <<props.place>>, !.props = <<props>>]

\* the marker effect for the props of the render; radii in metres
MarkerEffect(m, props) ==
    LET cleared == RemoveLayer(RemoveLayer(RemoveLayer(RemoveLayer(m, "impact"), "crater"),
                                           "shockwave"), "thermal")
        impact == AddLayer(cleared, "impact", props, 0)
        crater == AddLayer(impact, "crater", props, props.craterDiameter * 500)
        shockwave == AddLayer(crater, "shockwave", props, props.shockwaveRadius * 1000)
        thermal == AddLayer(shockwave, "thermal", props, props.thermalRadius * 1000)
    IN  [thermal EXCEPT !.view = <<props.place>>, !.props = <<props>>]

\* the map-creation effect: L.map unless mapRef.current is set
CreateMap(m, props) ==
    IF m.created = 0
    THEN [m EXCEPT !.created = 1, !.view = <<props.place>>]
    ELSE m

InitMap ==
    /\ data = DefaultData
    /\ results = << >>
    /\ previous = << >>
    /\ mitigationInput = DefaultMitigationInput
    /\ mitigationResults = << >>
    /\ tsunami = NoTsunamiCall
    /\ calls = << >>
    /\ db = EmptyDb
    /\ app = InitialApp
    /\ request = << >>
    /\ nasa = NoFetch
    /\ joules = NoJoules
    /\ loads = NoLoads
    /\ orbit = NoOrbit
    /\ map = NoMap

\* first render: both effects run
MountMap(props) ==
    /\ ~map.mounted
    /\ map' = MarkerEffect(CreateMap([map EXCEPT !.mounted = TRUE], props), props)
    /\ UNCHANGED <<callerVars, tsunami, calls, db, appVars, nasa, joules, loads, orbit>>

\* a render with a changed dependency of the marker effect
UpdateProps(props) ==
    /\ map.mounted
    /\ map.props # <<props>>
    /\ map' = MarkerEffect(map, props)
    /\ UNCHANGED <<callerVars, tsunami, calls, db, appVars, nasa, joules, loads, orbit>>

NextMap ==
    \/ \E props \in MapProps : MountMap(props)
    \/ \E props \in MapProps : UpdateProps(props)

SpecMap == InitMap /\ [][NextMap]_vars

\* the layers of the given kind on the map
LayersOf(kind) == {l \in map.layers : l.kind = kind}

\* C30: the Leaflet map is created once, and after any sequence of prop
\* updates it holds exactly one impact marker, one crater circle, one
\* shockwave circle and one thermal circle, all centred on the current
\* impactLat/impactLon.
C30_OneLayerOfEachKind ==
    map.mounted =>
        /\ map.created = 1
        /\ \A kind \in LayerKinds :
              /\ Cardinality(LayersOf(kind)) = 1
              /\ \A l \in LayersOf(kind) :
                    l.centre = map.props[1].place /\ l.id = map.markers[kind]
        /\ Cardinality(map.layers) = 4

\* after at least one update that moved the impact point: the layers are
\* not the four first created, and they are centred on the new place
C30_Witness ==
    /\ map.mounted
    /\ map.props[1].place = <<0, 0>>
    /\ map.markers.impact = 5
    /\ \A l \in map.layers : l.centre = <<0, 0>>
    /\ Cardinality(map.layers) = 4
====
